---- MODULE Spec2Model ----
(***************************************************************************)
(* The typed value model and coercion engine of Global-Common:             *)
(* Number / SimpleValue (src/src/value.rs) and SchematicFieldType /        *)
(* SchematicFieldValue (src/src/schema.rs).                                *)
(*                                                                         *)
(* Every operation is a pure function.  A state of the model is one call:  *)
(* `call` is the operation with its receiver and argument, `out` is what   *)
(* the call ended in.  Init draws the call from bounded input sets with    *)
(* out = Pending, and one action per entry point applies it.  `build` is    *)
(* the one thing the sources do not fix and the results depend on: whether *)
(* the `time` crate is built with its serde-human-readable feature.        *)
(*                                                                         *)
(* A Rust String is modelled as what it is: its sequence of UTF-8 bytes.   *)
(* A Result is Ok(v) or Err(e); a panic (todo!()) is a third outcome.      *)
(***************************************************************************)
EXTENDS Integers, Sequences, FiniteSets, TLC

VARIABLES call, out, build

vars == <<call, out, build>>

(***************************************************************************)
(* Bounds of the input sets.                                               *)
(***************************************************************************)
\* longest byte sequence enumerated over ByteAlphabet
MaxBytesLen == 3
\* longest ListString / ListNumber enumerated
MaxListLen == 3

(***************************************************************************)
(* Strings as byte sequences.                                              *)
(***************************************************************************)
\* the printable ASCII characters, 0x20 .. 0x7E, in code order (0x60 by name)
Printable ==
    << " ", "!", "\"", "#", "$", "%", "&", "'", "(", ")", "*", "+", ",", "-", ".", "/",
       "0", "1", "2", "3", "4", "5", "6", "7", "8", "9", ":", ";", "<", "=", ">", "?",
       "@", "A", "B", "C", "D", "E", "F", "G", "H", "I", "J", "K", "L", "M", "N", "O",
       "P", "Q", "R", "S", "T", "U", "V", "W", "X", "Y", "Z", "[", "\\", "]", "^", "_",
       "grave", "a", "b", "c", "d", "e", "f", "g", "h", "i", "j", "k", "l", "m", "n", "o",
       "p", "q", "r", "s", "t", "u", "v", "w", "x", "y", "z", "{", "|", "}", "~" >>

\* the byte of a printable ASCII character
Ch(c) == 31 + (CHOOSE i \in DOMAIN Printable : Printable[i] = c)

\* the bytes of a string literal written one character per element
S(cs) == [i \in DOMAIN cs |-> Ch(cs[i])]

IsDigit(b) == b >= 48 /\ b <= 57

DigitVal(b) == b - 48

\* s[from..], 1-based; empty when from is past the end
Drop(s, from) == SubSeq(s, from, Len(s))

\* whether s starts with the bytes p
StartsWith(s, p) == Len(s) >= Len(p) /\ SubSeq(s, 1, Len(p)) = p

RECURSIVE Pow10(_)
Pow10(n) == IF n = 0 THEN 1 ELSE 10 * Pow10(n - 1)

(***************************************************************************)
(* Result<T>: Ok, Err, or a panic unwinding through the caller.            *)
(***************************************************************************)
Ok(v) == [kind |-> "Ok", val |-> v]

Err(e) == [kind |-> "Err", err |-> e]

Panic(m, detail) == [kind |-> "Panic", msg |-> m, detail |-> detail]

\* todo!(..): panics with "not yet implemented: <detail>"
Todo(detail) == Panic("not yet implemented", detail)

Pending == [kind |-> "Pending"]

IsOk(o) == o.kind = "Ok"

IsErr(o) == o.kind = "Err"

IsPanic(o) == o.kind = "Panic"

\* the `?` operator: F of the value, or the error handed on to the caller
AndThen(r, F(_)) == IF IsOk(r) THEN F(r.val) ELSE r

(***************************************************************************)
(* SchematicFieldType, in declared order (#[repr(i32)], codes 0..22).      *)
(***************************************************************************)
SchematicFieldTypeOrder ==
    << "Text", "Number", "URL", "Email", "Address", "Phone", "Boolean", "DateTime",
       "Date", "Time", "RichContent", "RichText", "Reference", "MultiReference",
       "MediaGallery", "Document", "MultiDocument", "Image", "Video", "Audio",
       "Tags", "Array", "Object" >>

SchematicFieldType == {SchematicFieldTypeOrder[i] : i \in DOMAIN SchematicFieldTypeOrder}

\* a faulty code assignment: the codes start at 1
SchematicFieldType_into_i32_OneBased(self) ==
    CHOOSE i \in DOMAIN SchematicFieldTypeOrder : SchematicFieldTypeOrder[i] = self

\* #[derive(IntoPrimitive)] with #[repr(i32)] and no explicit discriminant:
\* the code is the position in the declaration, counted from 0
SchematicFieldType_into_i32(self) ==
    (CHOOSE i \in DOMAIN SchematicFieldTypeOrder : SchematicFieldTypeOrder[i] = self) - 1

\* #[derive(TryFromPrimitive)]: the variant of the code, or an error
SchematicFieldType_try_from_i32(number) ==
    IF number \in 0..(Len(SchematicFieldTypeOrder) - 1)
    THEN [kind |-> "Ok", val |-> SchematicFieldTypeOrder[number + 1]]
    ELSE [kind |-> "Err", err |-> "TryFromPrimitiveError"]

(***************************************************************************)
(* f64.  A finite decimal mant / 10^scale, kept normalised (no trailing    *)
(* zero in the fraction), so equal values have equal representations.      *)
(* NaN and the infinities cannot come out of a JSON literal and are not    *)
(* in the input sets.                                                      *)
(***************************************************************************)
RECURSIVE F64(_, _)
F64(m, s) ==
    IF s > 0 /\ m % 10 = 0 THEN F64(m \div 10, s - 1) ELSE [mant |-> m, scale |-> s]

\* `v as f64` of an integer (exact below 2^53)
F64FromInt(v) == F64(v, 0)

F64Lt(a, b) == a.mant * Pow10(b.scale) < b.mant * Pow10(a.scale)

F64Eq(a, b) == a.mant * Pow10(b.scale) = b.mant * Pow10(a.scale)

(***************************************************************************)
(* Number (value.rs:7-13): Byte(u8) | Integer(i64) | Float(f64).           *)
(***************************************************************************)
Byte(v) == [tag |-> "Byte", v |-> v]

Integer(v) == [tag |-> "Integer", v |-> v]

Float(f) == [tag |-> "Float", f |-> f]

\* the variant's position in the enum declaration
NumberDiscriminant(n) ==
    CASE n.tag = "Byte" -> 0
      [] n.tag = "Integer" -> 1
      [] n.tag = "Float" -> 2

\* Number::convert_f64
convert_f64(n) ==
    CASE n.tag = "Byte" -> F64FromInt(n.v)
      [] n.tag = "Integer" -> F64FromInt(n.v)
      [] n.tag = "Float" -> n.f

(***************************************************************************)
(* i64 results.  An i64 is written as three limbs <<hi, mid, lo>> standing *)
(* for hi * 2^32 + mid * 2^16 + lo with mid and lo in 0..65535, since the  *)
(* values that make the narrowing to i32 wrap lie outside 32 bits.         *)
(***************************************************************************)
\* Integer(hi * 2^32 + mid * 2^16 + lo), a payload beyond 32 bits
IntegerWide(hi, mid, lo) == [tag |-> "Integer", w |-> <<hi, mid, lo>>]

\* `v as i64` of a value within 32 bits: sign extension
I64FromInt(v) == <<IF v < 0 THEN 0 - 1 ELSE 0, (v \div 65536) % 65536, v % 65536>>

\* the payload of an Integer as an i64
IntegerPayload(n) == IF "w" \in DOMAIN n THEN n.w ELSE I64FromInt(n.v)

\* `v as i64` and `v as i32` of a float: the fraction is dropped (towards zero)
F64Trunc(f) ==
    IF f.mant < 0 THEN 0 - ((0 - f.mant) \div Pow10(f.scale)) ELSE f.mant \div Pow10(f.scale)

\* Number::convert_i64
convert_i64(n) ==
    CASE n.tag = "Byte" -> I64FromInt(n.v)
      [] n.tag = "Integer" -> IntegerPayload(n)
      [] n.tag = "Float" -> I64FromInt(F64Trunc(n.f))

\* From<Number> for i64
i64_from_Number(val) ==
    CASE val.tag = "Byte" -> I64FromInt(val.v)
      [] val.tag = "Integer" -> IntegerPayload(val)
      [] val.tag = "Float" -> I64FromInt(F64Trunc(val.f))

\* a faulty narrowing: an Integer out of the range of i32 is clamped to its ends
i32_from_Number_Saturating(val) ==
    LET clamp(w) ==
            IF w[1] > 0 \/ (w[1] = 0 /\ w[2] >= 32768) THEN 2147483647
            ELSE IF w[1] < 0 - 1 \/ (w[1] = 0 - 1 /\ w[2] < 32768) THEN 0 - 2147483647 - 1
            ELSE IF w[2] >= 32768 THEN (w[2] - 65536) * 65536 + w[3]
            ELSE w[2] * 65536 + w[3]
    IN  CASE val.tag = "Byte" -> val.v
          [] val.tag = "Integer" -> clamp(IntegerPayload(val))
          [] val.tag = "Float" -> F64Trunc(val.f)

\* From<Number> for i32; `v as i32` of an i64 keeps the low 32 bits and reads
\* them as a signed number
i32_from_Number(val) ==
    LET low32(w) ==
            IF w[2] >= 32768 THEN (w[2] - 65536) * 65536 + w[3] ELSE w[2] * 65536 + w[3]
    IN  CASE val.tag = "Byte" -> val.v
          [] val.tag = "Integer" -> low32(IntegerPayload(val))
          [] val.tag = "Float" -> F64Trunc(val.f)

\* #[derive(PartialEq)]: same variant and equal payloads
NumberEq(a, b) ==
    /\ a.tag = b.tag
    /\ IF a.tag = "Float" THEN F64Eq(a.f, b.f) ELSE a.v = b.v

\* #[derive(PartialOrd)], `a < b`: the discriminants are compared first and
\* the payloads only within one variant
NumberLt(a, b) ==
    \/ NumberDiscriminant(a) < NumberDiscriminant(b)
    \/ /\ a.tag = b.tag
       /\ IF a.tag = "Float" THEN F64Lt(a.f, b.f) ELSE a.v < b.v

\* a faulty From<u8>: the byte widened into the Integer variant
NumberFromU8_AsInteger(b) == Integer(b)

\* From<u8> for Number
NumberFromU8(b) == Byte(b)

(***************************************************************************)
(* Display of integers, floats and Numbers, as bytes.                      *)
(***************************************************************************)
RECURSIVE NatToStr(_)
NatToStr(n) ==
    IF n < 10 THEN <<48 + n>> ELSE NatToStr(n \div 10) \o <<48 + (n % 10)>>

IntToStr(n) == IF n < 0 THEN <<Ch("-")>> \o NatToStr(0 - n) ELSE NatToStr(n)

\* n in decimal, left-padded with zeros to at least w digits ({:0w})
RECURSIVE ZeroPad(_, _)
ZeroPad(str, w) == IF Len(str) >= w THEN str ELSE ZeroPad(<<48>> \o str, w)

\* Display for f64: the shortest decimal, no fraction for an integral value
F64ToStr(f) ==
    IF f.scale = 0
    THEN IntToStr(f.mant)
    ELSE LET neg == f.mant < 0
             abs == IF neg THEN 0 - f.mant ELSE f.mant
             ip == abs \div Pow10(f.scale)
             fp == abs % Pow10(f.scale)
         IN  (IF neg THEN <<Ch("-")>> ELSE <<>>)
                 \o NatToStr(ip) \o <<Ch(".")>> \o ZeroPad(NatToStr(fp), f.scale)

\* Display for Number (value.rs:86-94)
NumberToString(n) ==
    CASE n.tag = "Byte" -> NatToStr(n.v)
      [] n.tag = "Integer" -> IntToStr(n.v)
      [] n.tag = "Float" -> F64ToStr(n.f)

(***************************************************************************)
(* The `time` types and the parsers built by format_description!.          *)
(* Date = [year, month, day], Time = [hour, minute, second, nanosecond],   *)
(* OffsetDateTime = [date, time, offset] with the offset in seconds.       *)
(***************************************************************************)
IsLeapYear(y) == y % 4 = 0 /\ (y % 100 # 0 \/ y % 400 = 0)

DaysInMonth(y, m) ==
    IF m = 2 THEN (IF IsLeapYear(y) THEN 29 ELSE 28)
    ELSE IF m \in {4, 6, 9, 11} THEN 30 ELSE 31

NoParse == [ok |-> FALSE]

Parsed(rest, val) == [ok |-> TRUE, rest |-> rest, val |-> val]

\* exactly n ASCII digits at the head of s (Padding::Zero)
RECURSIVE DigitsValue(_)
DigitsValue(ds) ==
    IF ds = <<>> THEN 0
    ELSE 10 * DigitsValue(SubSeq(ds, 1, Len(ds) - 1)) + DigitVal(ds[Len(ds)])

ExactlyNDigits(s, n) ==
    IF Len(s) >= n /\ \A i \in 1..n : IsDigit(s[i])
    THEN Parsed(Drop(s, n + 1), DigitsValue(SubSeq(s, 1, n)))
    ELSE NoParse

\* the number of leading digits of s, at most max
RECURSIVE LeadingDigits(_, _)
LeadingDigits(s, max) ==
    IF max = 0 \/ s = <<>> \/ ~IsDigit(s[1]) THEN 0
    ELSE 1 + LeadingDigits(Tail(s), max - 1)

\* [year]: an optional sign, then exactly four digits
ParseYear(s) ==
    IF s # <<>> /\ s[1] \in {Ch("+"), Ch("-")}
    THEN LET r == ExactlyNDigits(Tail(s), 4)
         IN  IF ~r.ok THEN NoParse
             ELSE Parsed(r.rest, IF s[1] = Ch("-") THEN 0 - r.val ELSE r.val)
    ELSE ExactlyNDigits(s, 4)

\* [subsecond]: one to nine digits, read as a decimal fraction of a second
ParseSubsecond(s) ==
    LET n == LeadingDigits(s, 9)
    IN  IF n = 0 THEN NoParse
        ELSE Parsed(Drop(s, n + 1), DigitsValue(SubSeq(s, 1, n)) * Pow10(9 - n))

\* one item of a format description: a component name or a literal
ParseItem(s, item) ==
    CASE item = "year" -> ParseYear(s)
      [] item \in {"month", "day", "hour", "minute", "second"} -> ExactlyNDigits(s, 2)
      [] item = "subsecond" -> ParseSubsecond(s)
      [] OTHER -> IF s # <<>> /\ s[1] = Ch(item) THEN Parsed(Tail(s), 0) ELSE NoParse

IsComponent(item) ==
    item \in {"year", "month", "day", "hour", "minute", "second", "subsecond"}

\* the items of a description in order; acc collects the components read
RECURSIVE ParseItems(_, _, _)
ParseItems(s, items, acc) ==
    IF items = <<>>
    THEN (IF s = <<>> THEN [ok |-> TRUE, got |-> acc] ELSE NoParse)
    ELSE LET then(r) ==
                 IF ~r.ok THEN NoParse
                 ELSE ParseItems(r.rest, Tail(items),
                                 IF IsComponent(Head(items))
                                 THEN acc @@ (Head(items) :> r.val)
                                 ELSE acc)
         IN  then(ParseItem(s, Head(items)))

\* a component of the parsed set, or its default when the description has none
Component(got, name, default) == IF name \in DOMAIN got THEN got[name] ELSE default

\* TryFrom<Parsed> for Date: Date::from_calendar_date's range checks
DateFromParsed(got) ==
    LET y == got["year"]
        m == got["month"]
        d == got["day"]
    IN  IF m >= 1 /\ m <= 12 /\ d >= 1 /\ d <= DaysInMonth(y, m)
        THEN Ok([year |-> y, month |-> m, day |-> d])
        ELSE Err("time::error::Parse")

\* TryFrom<Parsed> for Time: a missing second or subsecond is zero
TimeFromParsed(got) ==
    LET h == got["hour"]
        mi == got["minute"]
        sec == Component(got, "second", 0)
        ns == Component(got, "subsecond", 0)
    IN  IF h <= 23 /\ mi <= 59 /\ sec <= 59
        THEN Ok([hour |-> h, minute |-> mi, second |-> sec, nanosecond |-> ns])
        ELSE Err("time::error::Parse")

EmptyParsed == [x \in {} |-> 0]

\* the components read by a description, handed to the type's TryFrom<Parsed>
ParsedInto(r, F(_)) == IF r.ok THEN F(r.got) ELSE Err("time::error::Parse")

\* PrimitiveDateTime::new of a date and a time that both came out
PrimitiveDateTimeNew(d, t) ==
    IF IsOk(d) /\ IsOk(t) THEN Ok([date |-> d.val, time |-> t.val])
    ELSE Err("time::error::Parse")

\* TryFrom<Parsed> for PrimitiveDateTime
PrimitiveDateTimeFromParsed(got) ==
    PrimitiveDateTimeNew(DateFromParsed(got), TimeFromParsed(got))

\* Date::parse(s, description)
DateParse(s, items) == ParsedInto(ParseItems(s, items, EmptyParsed), DateFromParsed)

\* Time::parse(s, description)
TimeParse(s, items) == ParsedInto(ParseItems(s, items, EmptyParsed), TimeFromParsed)

\* PrimitiveDateTime::parse(s, description)
PrimitiveDateTimeParse(s, items) ==
    ParsedInto(ParseItems(s, items, EmptyParsed), PrimitiveDateTimeFromParsed)

\* PrimitiveDateTime::assume_utc
assume_utc(pdt) == [date |-> pdt.date, time |-> pdt.time, offset |-> 0]

\* the format descriptions of schema.rs:400, 406, 413, 418, 424
FmtDateTimeMinute == <<"year", "-", "month", "-", "day", "T", "hour", ":", "minute">>

FmtDateTimeSecond ==
    <<"year", "-", "month", "-", "day", "T", "hour", ":", "minute", ":", "second">>

FmtDate == <<"year", "-", "month", "-", "day">>

FmtTimeSecond == <<"hour", ":", "minute", ":", "second">>

FmtTimeSubsecond == <<"hour", ":", "minute", ":", "second", ".", "subsecond">>

(***************************************************************************)
(* Display of the `time` types (what to_string() gives any_as_text).       *)
(***************************************************************************)
\* Date: the year padded to four digits, "-MM-DD"
DateToString(d) ==
    (IF d.year < 0 THEN <<Ch("-")>> \o ZeroPad(NatToStr(0 - d.year), 4)
     ELSE ZeroPad(NatToStr(d.year), 4))
        \o <<Ch("-")>> \o ZeroPad(NatToStr(d.month), 2)
        \o <<Ch("-")>> \o ZeroPad(NatToStr(d.day), 2)

\* the nanoseconds without their trailing zeros, at least one digit
RECURSIVE SubsecondDigits(_, _)
SubsecondDigits(ns, width) ==
    IF width > 1 /\ ns % 10 = 0 THEN SubsecondDigits(ns \div 10, width - 1)
    ELSE ZeroPad(NatToStr(ns), width)

\* Time: "H:MM:SS.f", the hour unpadded
TimeToString(t) ==
    NatToStr(t.hour) \o <<Ch(":")>> \o ZeroPad(NatToStr(t.minute), 2)
        \o <<Ch(":")>> \o ZeroPad(NatToStr(t.second), 2)
        \o <<Ch(".")>> \o SubsecondDigits(t.nanosecond, 9)

\* UtcOffset: "+HH:MM:SS"
OffsetToString(o) ==
    LET abs == IF o < 0 THEN 0 - o ELSE o
    IN  <<IF o < 0 THEN Ch("-") ELSE Ch("+")>>
            \o ZeroPad(NatToStr(abs \div 3600), 2) \o <<Ch(":")>>
            \o ZeroPad(NatToStr((abs \div 60) % 60), 2) \o <<Ch(":")>>
            \o ZeroPad(NatToStr(abs % 60), 2)

\* OffsetDateTime: "<date> <time> <offset>"
OffsetDateTimeToString(dt) ==
    DateToString(dt.date) \o <<Ch(" ")>> \o TimeToString(dt.time)
        \o <<Ch(" ")>> \o OffsetToString(dt.offset)

(***************************************************************************)
(* <bool as FromStr>::from_str: exactly "true" and "false".                *)
(***************************************************************************)
BoolFromStr(s) ==
    IF s = S(<<"t", "r", "u", "e">>) THEN Ok(TRUE)
    ELSE IF s = S(<<"f", "a", "l", "s", "e">>) THEN Ok(FALSE)
    ELSE Err("ParseBoolError")

(***************************************************************************)
(* <Uuid as FromStr>::from_str.  A Uuid is its 16 bytes.                   *)
(***************************************************************************)
\* the value of a hexadecimal digit of either case, -1 for any other byte
HexVal(b) ==
    IF IsDigit(b) THEN b - 48
    ELSE IF b >= 97 /\ b <= 102 THEN b - 87
    ELSE IF b >= 65 /\ b <= 70 THEN b - 55
    ELSE 0 - 1

\* 32 hexadecimal digits as 16 bytes
HexBytes(h) == [i \in 1..16 |-> 16 * HexVal(h[2 * i - 1]) + HexVal(h[2 * i])]

ParseSimple(s) ==
    IF Len(s) = 32 /\ \A i \in 1..32 : HexVal(s[i]) >= 0
    THEN Ok(HexBytes(s))
    ELSE Err("uuid::Error")

\* 8-4-4-4-12 with the hyphens at their four places
ParseHyphenated(s) ==
    IF /\ Len(s) = 36
       /\ \A i \in {9, 14, 19, 24} : s[i] = Ch("-")
    THEN ParseSimple(SubSeq(s, 1, 8) \o SubSeq(s, 10, 13) \o SubSeq(s, 15, 18)
                        \o SubSeq(s, 20, 23) \o SubSeq(s, 25, 36))
    ELSE Err("uuid::Error")

UrnPrefix == S(<<"u", "r", "n", ":", "u", "u", "i", "d", ":">>)

\* the four accepted spellings are told apart by length
UuidFromStr(s) ==
    CASE Len(s) = 32 -> ParseSimple(s)
      [] Len(s) = 36 -> ParseHyphenated(s)
      [] Len(s) = 38 /\ s[1] = Ch("{") /\ s[38] = Ch("}") ->
            ParseHyphenated(SubSeq(s, 2, 37))
      [] Len(s) = 45 /\ StartsWith(s, UrnPrefix) -> ParseHyphenated(Drop(s, 10))
      [] OTHER -> Err("uuid::Error")

(***************************************************************************)
(* Url::parse, as far as the coercion depends on it: an absolute URL needs *)
(* a scheme, and a special scheme other than file needs a host.  A Url is  *)
(* kept as its lower-cased scheme and the text after the colon.            *)
(***************************************************************************)
IsAlpha(b) == (b >= 65 /\ b <= 90) \/ (b >= 97 /\ b <= 122)

IsSchemeByte(b) == IsAlpha(b) \/ IsDigit(b) \/ b \in {Ch("+"), Ch("-"), Ch(".")}

ToLower(b) == IF b >= 65 /\ b <= 90 THEN b + 32 ELSE b

\* the length of the scheme before the first ':', 0 when there is none
RECURSIVE SchemeLen(_, _)
SchemeLen(s, i) ==
    IF i > Len(s) THEN 0
    ELSE IF s[i] = Ch(":") THEN i - 1
    ELSE IF IsSchemeByte(s[i]) THEN SchemeLen(s, i + 1)
    ELSE 0

SpecialSchemes ==
    { S(<<"h", "t", "t", "p">>), S(<<"h", "t", "t", "p", "s">>), S(<<"w", "s">>),
      S(<<"w", "s", "s">>), S(<<"f", "t", "p">>) }

RECURSIVE SkipSlashes(_)
SkipSlashes(s) ==
    IF s # <<>> /\ s[1] \in {Ch("/"), Ch("\\")} THEN SkipSlashes(Tail(s)) ELSE s

\* the authority's host: up to the first delimiter
RECURSIVE HostOf(_)
HostOf(s) ==
    IF s = <<>> \/ s[1] \in {Ch("/"), Ch("\\"), Ch("?"), Ch("#"), Ch(":")} THEN <<>>
    ELSE <<s[1]>> \o HostOf(Tail(s))

UrlParse(s) ==
    LET n == IF s # <<>> /\ IsAlpha(s[1]) THEN SchemeLen(s, 1) ELSE 0
        scheme == [i \in 1..n |-> ToLower(s[i])]
        rest == Drop(s, n + 2)
        host == HostOf(SkipSlashes(rest))
    IN  IF n = 0 THEN Err("url::ParseError")
        ELSE IF scheme \in SpecialSchemes /\ (host = <<>> \/ Ch(" ") \in {host[i] : i \in DOMAIN host})
        THEN Err("url::ParseError")
        ELSE Ok([scheme |-> scheme, rest |-> rest])

(***************************************************************************)
(* String::from_utf8: the bytes are kept when they are well-formed UTF-8.  *)
(***************************************************************************)
IsCont(b) == b >= 128 /\ b <= 191

\* the length of the well-formed sequence at the head of s, 0 when ill-formed
Utf8SeqLen(s) ==
    LET b == s[1]
        second(lo, hi) == Len(s) >= 2 /\ s[2] >= lo /\ s[2] <= hi
        third == Len(s) >= 3 /\ IsCont(s[3])
        fourth == Len(s) >= 4 /\ IsCont(s[4])
    IN  CASE b < 128 -> 1
          [] b >= 194 /\ b <= 223 -> IF second(128, 191) THEN 2 ELSE 0
          [] b = 224 -> IF second(160, 191) /\ third THEN 3 ELSE 0
          [] (b >= 225 /\ b <= 236) \/ b \in {238, 239} ->
                IF second(128, 191) /\ third THEN 3 ELSE 0
          [] b = 237 -> IF second(128, 159) /\ third THEN 3 ELSE 0
          [] b = 240 -> IF second(144, 191) /\ third /\ fourth THEN 4 ELSE 0
          [] b >= 241 /\ b <= 243 -> IF second(128, 191) /\ third /\ fourth THEN 4 ELSE 0
          [] b = 244 -> IF second(128, 143) /\ third /\ fourth THEN 4 ELSE 0
          [] OTHER -> 0

RECURSIVE IsUtf8(_)
IsUtf8(s) ==
    IF s = <<>> THEN TRUE
    ELSE LET n == Utf8SeqLen(s)
         IN  n > 0 /\ IsUtf8(Drop(s, n + 1))

StringFromUtf8(bytes) == IF IsUtf8(bytes) THEN Ok(bytes) ELSE Err("FromUtf8Error")

(***************************************************************************)
(* serde_json::Value and the JSON text parser behind from_str/from_slice.  *)
(* An object is a function from its keys (a repeated key keeps the last    *)
(* value).  \u escapes and integer literals beyond the i64 range are not   *)
(* in the input sets.                                                      *)
(***************************************************************************)
JNull == [j |-> "null"]

JBool(b) == [j |-> "bool", b |-> b]

JInt(i) == [j |-> "int", i |-> i]

JFloat(f) == [j |-> "float", f |-> f]

JStr(s) == [j |-> "str", s |-> s]

JArr(a) == [j |-> "arr", a |-> a]

JObj(o) == [j |-> "obj", o |-> o]

IsWs(b) == b \in {32, 9, 10, 13}

RECURSIVE SkipWs(_)
SkipWs(s) == IF s # <<>> /\ IsWs(s[1]) THEN SkipWs(Tail(s)) ELSE s

\* the digits of a number's exponent part "e[+-]ddd" at the head of s, if any
JsonExponent(s) ==
    IF s = <<>> \/ s[1] \notin {Ch("e"), Ch("E")} THEN Parsed(s, 0)
    ELSE LET t == Tail(s)
             signed == t # <<>> /\ t[1] \in {Ch("+"), Ch("-")}
             d == IF signed THEN Tail(t) ELSE t
             n == LeadingDigits(d, Len(d))
             e == DigitsValue(SubSeq(d, 1, n))
         IN  IF n = 0 THEN NoParse
             ELSE Parsed(Drop(d, n + 1), IF signed /\ t[1] = Ch("-") THEN 0 - e ELSE e)

\* -? (0 | [1-9][0-9]*) (. [0-9]+)? ([eE] [+-]? [0-9]+)?
ParseJsonNumber(s) ==
    LET neg == s[1] = Ch("-")
        t == IF neg THEN Tail(s) ELSE s
        n == IF t # <<>> /\ t[1] = Ch("0") THEN 1 ELSE LeadingDigits(t, Len(t))
        ip == DigitsValue(SubSeq(t, 1, n))
        u == Drop(t, n + 1)
        hasFrac == u # <<>> /\ u[1] = Ch(".")
        fd == IF hasFrac THEN LeadingDigits(Tail(u), Len(u)) ELSE 0
        fp == IF hasFrac THEN DigitsValue(SubSeq(u, 2, fd + 1)) ELSE 0
        w == IF hasFrac THEN Drop(u, fd + 2) ELSE u
        ex == JsonExponent(w)
        hasExp == w # <<>> /\ w[1] \in {Ch("e"), Ch("E")}
        mant == (IF neg THEN 0 - 1 ELSE 1) * (ip * Pow10(fd) + fp)
    IN  IF n = 0 \/ (n = 1 /\ t[1] = Ch("0") /\ u # <<>> /\ IsDigit(u[1])) THEN NoParse
        ELSE IF hasFrac /\ fd = 0 THEN NoParse
        ELSE IF ~ex.ok THEN NoParse
        ELSE IF mant # 0 /\ ex.val > 308 THEN NoParse    \* beyond f64: "number out of range"
        ELSE IF ~hasFrac /\ ~hasExp /\ ~(neg /\ ip = 0) THEN Parsed(w, JInt(mant))
        ELSE Parsed(ex.rest,
                    JFloat(IF ex.val >= fd
                           THEN F64(mant * Pow10(ex.val - fd), 0)
                           ELSE F64(mant, fd - ex.val)))

\* the byte an escape letter stands for, -1 when it is no escape
EscapeByte(b) ==
    CASE b \in {Ch("\""), Ch("\\"), Ch("/")} -> b
      [] b = Ch("b") -> 8
      [] b = Ch("f") -> 12
      [] b = Ch("n") -> 10
      [] b = Ch("r") -> 13
      [] b = Ch("t") -> 9
      [] OTHER -> 0 - 1

\* the rest of a string after its opening quote
RECURSIVE JsonStringBody(_, _)
JsonStringBody(s, acc) ==
    IF s = <<>> \/ s[1] < 32 THEN NoParse
    ELSE IF s[1] = Ch("\"") THEN (IF IsUtf8(acc) THEN Parsed(Tail(s), acc) ELSE NoParse)
    ELSE IF s[1] = Ch("\\")
    THEN (IF Len(s) >= 2 /\ EscapeByte(s[2]) >= 0
          THEN JsonStringBody(Drop(s, 3), Append(acc, EscapeByte(s[2])))
          ELSE NoParse)
    ELSE JsonStringBody(Tail(s), Append(acc, s[1]))

\* a value that is no array or object, at the head of s
ParseJsonScalar(s) ==
    LET lit(word, v) == IF StartsWith(s, word) THEN Parsed(Drop(s, Len(word) + 1), v)
                        ELSE NoParse
    IN  CASE s[1] = Ch("n") -> lit(S(<<"n", "u", "l", "l">>), JNull)
          [] s[1] = Ch("t") -> lit(S(<<"t", "r", "u", "e">>), JBool(TRUE))
          [] s[1] = Ch("f") -> lit(S(<<"f", "a", "l", "s", "e">>), JBool(FALSE))
          [] s[1] = Ch("\"") ->
                LET r == JsonStringBody(Tail(s), <<>>)
                IN  IF r.ok THEN Parsed(r.rest, JStr(r.val)) ELSE NoParse
          [] s[1] = Ch("-") \/ IsDigit(s[1]) -> ParseJsonNumber(s)
          [] OTHER -> NoParse

\* an object's key and its ':' at the head of s
ParseJsonKey(s) ==
    LET k == IF s # <<>> /\ s[1] = Ch("\"") THEN JsonStringBody(Tail(s), <<>>) ELSE NoParse
        c == IF k.ok THEN SkipWs(k.rest) ELSE <<>>
    IN  IF c # <<>> /\ c[1] = Ch(":") THEN Parsed(Tail(c), k.val) ELSE NoParse

\* The parser, with the open arrays and objects on a stack (innermost first):
\* an array frame holds its elements so far, an object frame its members so far
\* and the key awaiting its value.  mode "value" expects a value at s, "key" an
\* object key, and "after" has just completed the value val.
RECURSIVE JsonRun(_, _, _, _)
JsonRun(s0, stack, mode, val) ==
    LET s == SkipWs(s0)
        top == Head(stack)
        members == (top.key :> val) @@ top.acc
    IN  CASE mode = "value" ->
               IF s = <<>> THEN NoParse
               ELSE IF s[1] = Ch("[")
               THEN (IF StartsWith(SkipWs(Tail(s)), <<Ch("]")>>)
                     THEN JsonRun(Tail(SkipWs(Tail(s))), stack, "after", JArr(<<>>))
                     ELSE JsonRun(Tail(s), <<[kind |-> "arr", acc |-> <<>>]>> \o stack,
                                  "value", JNull))
               ELSE IF s[1] = Ch("{")
               THEN (IF StartsWith(SkipWs(Tail(s)), <<Ch("}")>>)
                     THEN JsonRun(Tail(SkipWs(Tail(s))), stack, "after", JObj(EmptyParsed))
                     ELSE JsonRun(Tail(s),
                                  <<[kind |-> "obj", acc |-> EmptyParsed, key |-> <<>>]>>
                                      \o stack,
                                  "key", JNull))
               ELSE LET after(r) == IF r.ok THEN JsonRun(r.rest, stack, "after", r.val)
                                    ELSE NoParse
                    IN  after(ParseJsonScalar(s))
          [] mode = "key" ->
               LET keyed(k) ==
                       IF k.ok
                       THEN JsonRun(k.rest, <<[top EXCEPT !.key = k.val]>> \o Tail(stack),
                                    "value", JNull)
                       ELSE NoParse
               IN  keyed(ParseJsonKey(s))
          [] mode = "after" ->
               IF stack = <<>> THEN Parsed(s0, val)
               ELSE IF s = <<>> THEN NoParse
               ELSE IF top.kind = "arr"
               THEN (IF s[1] = Ch(",")
                     THEN JsonRun(Tail(s),
                                  <<[top EXCEPT !.acc = Append(top.acc, val)]>> \o Tail(stack),
                                  "value", JNull)
                     ELSE IF s[1] = Ch("]")
                     THEN JsonRun(Tail(s), Tail(stack), "after", JArr(Append(top.acc, val)))
                     ELSE NoParse)
               ELSE (IF s[1] = Ch(",")
                     THEN JsonRun(Tail(s), <<[top EXCEPT !.acc = members]>> \o Tail(stack),
                                  "key", JNull)
                     ELSE IF s[1] = Ch("}")
                     THEN JsonRun(Tail(s), Tail(stack), "after", JObj(members))
                     ELSE NoParse)

\* one value at the head of s
ParseJsonValue(s) == JsonRun(s, <<>>, "value", JNull)

\* the end of the input after the value: only white space may follow
JsonEnd(r) == IF r.ok /\ SkipWs(r.rest) = <<>> THEN Ok(r.val) ELSE Err("serde_json::Error")

\* serde_json::from_str / from_slice into a Value
JsonParse(s) == JsonEnd(ParseJsonValue(s))

(***************************************************************************)
(* SimpleValue (value.rs:103-119), one record shape per variant.           *)
(***************************************************************************)
SimpleValue_Text(s) == [t |-> "Text", text |-> s]

SimpleValue_Number(n) == [t |-> "Number", num |-> n]

SimpleValue_Boolean(b) == [t |-> "Boolean", bool |-> b]

SimpleValue_DateTime(dt) == [t |-> "DateTime", dt |-> dt]

SimpleValue_Date(d) == [t |-> "Date", date |-> d]

SimpleValue_Time(tm) == [t |-> "Time", time |-> tm]

SimpleValue_ListString(l) == [t |-> "ListString", strs |-> l]

SimpleValue_ListNumber(l) == [t |-> "ListNumber", nums |-> l]

SimpleValue_ArrayUnknown(a) == [t |-> "ArrayUnknown", arr |-> a]

SimpleValue_ObjectUnknown(j) == [t |-> "ObjectUnknown", json |-> j]

\* a faulty any_as_text: a list of strings is rendered too, as its first element
any_as_text_FirstOfList(self) ==
    CASE self.t = "Text" -> Ok(self.text)
      [] self.t = "Number" -> Ok(NumberToString(self.num))
      [] self.t = "Boolean" ->
            Ok(IF self.bool THEN S(<<"t", "r", "u", "e">>) ELSE S(<<"f", "a", "l", "s", "e">>))
      [] self.t = "DateTime" -> Ok(OffsetDateTimeToString(self.dt))
      [] self.t = "Date" -> Ok(DateToString(self.date))
      [] self.t = "Time" -> Ok(TimeToString(self.time))
      [] self.t = "ListString" /\ self.strs # <<>> -> Ok(self.strs[1])
      [] OTHER -> Err("Unable to convert to String")

\* SimpleValue::any_as_text
any_as_text(self) ==
    CASE self.t = "Text" -> Ok(self.text)
      [] self.t = "Number" -> Ok(NumberToString(self.num))
      [] self.t = "Boolean" ->
            Ok(IF self.bool THEN S(<<"t", "r", "u", "e">>) ELSE S(<<"f", "a", "l", "s", "e">>))
      [] self.t = "DateTime" -> Ok(OffsetDateTimeToString(self.dt))
      [] self.t = "Date" -> Ok(DateToString(self.date))
      [] self.t = "Time" -> Ok(TimeToString(self.time))
      [] OTHER -> Err("Unable to convert to String")

\* a faulty try_as_text: every variant any_as_text renders is accepted
try_as_text_Lenient(self) == any_as_text(self)

\* SimpleValue::try_as_text
try_as_text(self) ==
    IF self.t = "Text" THEN Ok(self.text) ELSE Err("Unable to convert to Text")

\* SimpleValue::try_as_number
try_as_number(self) ==
    IF self.t = "Number" THEN Ok(self.num) ELSE Err("Unable to convert to Number")

\* SimpleValue::try_as_list_string
try_as_list_string(self) ==
    IF self.t = "ListString" THEN Ok(self.strs) ELSE Err("Unable to convert to String List")

\* SimpleValue::try_as_list_number
try_as_list_number(self) ==
    IF self.t = "ListNumber" THEN Ok(self.nums) ELSE Err("Unable to convert to Number List")

\* a faulty into_u8: an Integer that fits a byte is narrowed
into_u8_Narrowing(self) ==
    IF self.tag = "Byte" \/ (self.tag = "Integer" /\ "v" \in DOMAIN self /\ self.v \in 0..255)
    THEN Ok(self.v)
    ELSE Err("Not u8")

\* Number::into_u8
into_u8(self) == IF self.tag = "Byte" THEN Ok(self.v) ELSE Err("Not u8")

\* SimpleValue::try_as_bytes: collect() into a Result ends at the first
\* element that is refused
try_as_bytes(self) ==
    IF self.t = "ListNumber"
    THEN IF \A i \in DOMAIN self.nums : IsOk(into_u8(self.nums[i]))
         THEN Ok([i \in DOMAIN self.nums |-> into_u8(self.nums[i]).val])
         ELSE Err("Not u8")
    ELSE Err("Unable to convert to Number List")

\* the methods of SimpleValue by name (value.rs:122-272): any_as_text, the
\* try_as_* accessors, which hand out the payload, and the ensure_* guards,
\* which hand back the value itself
SimpleValue_method(name, self) ==
    LET ensure(variant, msg) == IF self.t = variant THEN Ok(self) ELSE Err(msg)
    IN  CASE name = "any_as_text" -> any_as_text(self)
          [] name = "try_as_text" -> try_as_text(self)
          [] name = "try_as_number" -> try_as_number(self)
          [] name = "try_as_boolean" ->
                IF self.t = "Boolean" THEN Ok(self.bool) ELSE Err("Unable to convert to Boolean")
          [] name = "try_as_date_time" ->
                IF self.t = "DateTime" THEN Ok(self.dt) ELSE Err("Unable to convert to DateTime")
          [] name = "try_as_date" ->
                IF self.t = "Date" THEN Ok(self.date) ELSE Err("Unable to convert to Date")
          [] name = "try_as_time" ->
                IF self.t = "Time" THEN Ok(self.time) ELSE Err("Unable to convert to Time")
          [] name = "try_as_list_string" -> try_as_list_string(self)
          [] name = "try_as_list_number" -> try_as_list_number(self)
          [] name = "ensure_text" -> ensure("Text", "Not Text")
          [] name = "ensure_number" -> ensure("Number", "Not Number")
          [] name = "ensure_boolean" -> ensure("Boolean", "Not Boolean")
          [] name = "ensure_date_time" -> ensure("DateTime", "Not Date Time")
          [] name = "ensure_date" -> ensure("Date", "Not Date")
          [] name = "ensure_time" -> ensure("Time", "Not Time")
          [] name = "ensure_list_string" -> ensure("ListString", "Not String List")
          [] name = "ensure_list_number" -> ensure("ListNumber", "Not Number List")

(***************************************************************************)
(* serde for Number and SimpleValue (#[serde(untagged)]) and for the       *)
(* `time` types: tuples of integers, or text when human-readable.          *)
(***************************************************************************)
\* the day of the year of a date
RECURSIVE DaysBefore(_, _)
DaysBefore(y, m) == IF m = 1 THEN 0 ELSE DaysBefore(y, m - 1) + DaysInMonth(y, m - 1)

DateOrdinal(d) == DaysBefore(d.year, d.month) + d.day

DaysInYear(y) == IF IsLeapYear(y) THEN 366 ELSE 365

\* the month holding day `ord` of year y, searched from month m
RECURSIVE MonthOfOrdinal(_, _, _)
MonthOfOrdinal(y, ord, m) ==
    IF ord <= DaysBefore(y, m) + DaysInMonth(y, m) THEN m ELSE MonthOfOrdinal(y, ord, m + 1)

\* Date::from_ordinal_date
DateFromOrdinal(y, ord) ==
    IF y >= 0 - 9999 /\ y <= 9999 /\ ord >= 1 /\ ord <= DaysInYear(y)
    THEN LET m == MonthOfOrdinal(y, ord, 1)
         IN  Ok([year |-> y, month |-> m, day |-> ord - DaysBefore(y, m)])
    ELSE Err("serde_json::Error")

\* the time crate's text forms under serde-human-readable (the hour is padded)
TimeToSerdeString(t) ==
    ZeroPad(NatToStr(t.hour), 2) \o Tail(TimeToString([t EXCEPT !.hour = 0]))

DateTimeToSerdeString(dt) ==
    DateToString(dt.date) \o <<Ch(" ")>> \o TimeToSerdeString(dt.time)
        \o <<Ch(" ")>> \o OffsetToString(dt.offset)

DateToJson(d) ==
    IF build = "serde-human-readable" THEN JStr(DateToString(d))
    ELSE JArr(<<JInt(d.year), JInt(DateOrdinal(d))>>)

TimeToJson(t) ==
    IF build = "serde-human-readable" THEN JStr(TimeToSerdeString(t))
    ELSE JArr(<<JInt(t.hour), JInt(t.minute), JInt(t.second), JInt(t.nanosecond)>>)

DateTimeToJson(dt) ==
    IF build = "serde-human-readable" THEN JStr(DateTimeToSerdeString(dt))
    ELSE JArr(<<JInt(dt.date.year), JInt(DateOrdinal(dt.date)), JInt(dt.time.hour),
                JInt(dt.time.minute), JInt(dt.time.second), JInt(dt.time.nanosecond),
                JInt(dt.offset \div 3600), JInt((dt.offset \div 60) % 60),
                JInt(dt.offset % 60)>>)

\* Serialize for Number: the bare payload
NumberToJson(n) == IF n.tag = "Float" THEN JFloat(n.f) ELSE JInt(n.v)

\* serde_json::to_value of a SimpleValue: the bare payload of the variant
SimpleValueToJson(v) ==
    CASE v.t = "Text" -> JStr(v.text)
      [] v.t = "Number" -> NumberToJson(v.num)
      [] v.t = "Boolean" -> JBool(v.bool)
      [] v.t = "DateTime" -> DateTimeToJson(v.dt)
      [] v.t = "Date" -> DateToJson(v.date)
      [] v.t = "Time" -> TimeToJson(v.time)
      [] v.t = "ListString" -> JArr([i \in DOMAIN v.strs |-> JStr(v.strs[i])])
      [] v.t = "ListNumber" -> JArr([i \in DOMAIN v.nums |-> NumberToJson(v.nums[i])])
      [] v.t = "ArrayUnknown" -> JArr(v.arr)
      [] v.t = "ObjectUnknown" -> v.json

IsJsonNumber(j) == j.j \in {"int", "float"}

\* a faulty decoder of Number: Integer is tried before Byte
NumberFromJson_IntegerFirst(j) == IF j.j = "int" THEN Integer(j.i) ELSE Float(j.f)

\* Deserialize for Number: Byte, then Integer, then Float; the first that fits
NumberFromJson(j) ==
    IF j.j = "int"
    THEN (IF j.i >= 0 /\ j.i <= 255 THEN Byte(j.i) ELSE Integer(j.i))
    ELSE Float(j.f)

AllInts(a) == \A i \in DOMAIN a : a[i].j = "int"

\* Time's visit_seq: (hour, minute, second, nanosecond)
TimeFromJsonSeq(a) ==
    IF /\ Len(a) = 4
       /\ AllInts(a)
       /\ a[1].i >= 0 /\ a[1].i <= 23
       /\ a[2].i >= 0 /\ a[2].i <= 59
       /\ a[3].i >= 0 /\ a[3].i <= 59
       /\ a[4].i >= 0 /\ a[4].i <= 999999999
    THEN Ok([hour |-> a[1].i, minute |-> a[2].i, second |-> a[3].i, nanosecond |-> a[4].i])
    ELSE Err("serde_json::Error")

\* Date's visit_seq: (year, ordinal)
DateFromJsonSeq(a) ==
    IF Len(a) = 2 /\ AllInts(a) THEN DateFromOrdinal(a[1].i, a[2].i)
    ELSE Err("serde_json::Error")

\* OffsetDateTime's visit_seq: (year, ordinal, hour, minute, second, nanosecond,
\* offset hours, minutes, seconds)
DateTimeFromJsonSeq(a) ==
    IF Len(a) = 9 /\ AllInts(a)
    THEN LET d == DateFromOrdinal(a[1].i, a[2].i)
             t == TimeFromJsonSeq(SubSeq(a, 3, 6))
             offsetOk == /\ \A i \in 7..9 : a[i].i >= 0 - 59 /\ a[i].i <= 59
                         /\ a[7].i >= 0 - 25 /\ a[7].i <= 25
         IN  IF IsOk(d) /\ IsOk(t) /\ offsetOk
             THEN Ok([date |-> d.val, time |-> t.val,
                      offset |-> 3600 * a[7].i + 60 * a[8].i + a[9].i])
             ELSE Err("serde_json::Error")
    ELSE Err("serde_json::Error")

\* Deserialize for SimpleValue: the variants are tried in declared order and the
\* first that accepts the value is taken; ObjectUnknown accepts every value
SimpleValueFromJson(j) ==
    CASE j.j = "str" -> SimpleValue_Text(j.s)
      [] IsJsonNumber(j) -> SimpleValue_Number(NumberFromJson(j))
      [] j.j = "bool" -> SimpleValue_Boolean(j.b)
      [] j.j = "arr" ->
            IF IsOk(DateTimeFromJsonSeq(j.a))
            THEN SimpleValue_DateTime(DateTimeFromJsonSeq(j.a).val)
            ELSE IF IsOk(DateFromJsonSeq(j.a))
            THEN SimpleValue_Date(DateFromJsonSeq(j.a).val)
            ELSE IF IsOk(TimeFromJsonSeq(j.a))
            THEN SimpleValue_Time(TimeFromJsonSeq(j.a).val)
            ELSE IF \A i \in DOMAIN j.a : j.a[i].j = "str"
            THEN SimpleValue_ListString([i \in DOMAIN j.a |-> j.a[i].s])
            ELSE IF \A i \in DOMAIN j.a : IsJsonNumber(j.a[i])
            THEN SimpleValue_ListNumber([i \in DOMAIN j.a |-> NumberFromJson(j.a[i])])
            ELSE SimpleValue_ArrayUnknown(j.a)
      [] OTHER -> SimpleValue_ObjectUnknown(j)

\* serde_json::from_slice::<SimpleValue>
SimpleValueFromSlice(bytes) ==
    AndThen(JsonParse(bytes), LAMBDA j : Ok(SimpleValueFromJson(j)))

\* Deserialize for Vec<serde_json::Value>: only a JSON array
VecFromJson(j) == IF j.j = "arr" THEN Ok(j.a) ELSE Err("serde_json::Error")

\* Deserialize for serde_json::Value: every JSON value
ValueFromJson(j) == Ok(j)

(***************************************************************************)
(* SchematicFieldValue (schema.rs:498-521), tagged as on the wire:         *)
(* {"type": variant, "value": payload}.                                    *)
(***************************************************************************)
SchematicFieldValue(variant, payload) == [type |-> variant, value |-> payload]

\* r's value wrapped in a variant; an error passes through (the `?` operator)
Wrap(variant, r) == IF IsOk(r) THEN Ok(SchematicFieldValue(variant, r.val)) ELSE r

\* the try_as_* accessors of SchematicFieldValue by name (schema.rs:523-651)
SchematicFieldValue_try_as(name, self) ==
    LET payload(variant, msg) == IF self.type = variant THEN Ok(self.value) ELSE Err(msg)
    IN  CASE name = "try_as_reference" -> payload("Reference", "Unable to convert to Reference")
          [] name = "try_as_text" -> payload("Text", "Unable to convert to Text")
          [] name = "try_as_number" -> payload("Number", "Unable to convert to Number")
          [] name = "try_as_boolean" -> payload("Boolean", "Unable to convert to Boolean")
          [] name = "try_as_url" -> payload("Url", "Unable to convert to Url")
          [] name = "try_as_email" -> payload("Email", "Unable to convert to Email")
          [] name = "try_as_phone" -> payload("Phone", "Unable to convert to Phone")
          [] name = "try_as_address" -> payload("Address", "Unable to convert to Address")
          [] name = "try_as_date_time" -> payload("DateTime", "Unable to convert to DateTime")
          [] name = "try_as_date" -> payload("Date", "Unable to convert to Date")
          [] name = "try_as_time" -> payload("Time", "Unable to convert to Time")
          [] name = "try_as_list_string" ->
                payload("ListString", "Unable to convert to String List")
          [] name = "try_as_list_number" ->
                payload("ListNumber", "Unable to convert to Number List")
          [] name = "try_as_list_reference" ->
                payload("MultiReference", "Unable to convert to Reference List")
          [] name = "try_as_array" -> payload("Array", "Unable to convert to Object Array")
          [] name = "try_as_object" -> payload("Object", "Unable to convert to Object")

(***************************************************************************)
(* SchematicFieldType::parse_value_bytes (schema.rs:351-381).              *)
(***************************************************************************)
TextShaped ==
    { "Text", "URL", "Email", "Address", "Phone", "Boolean", "DateTime", "Date", "Time",
      "RichContent", "RichText", "Reference", "Array", "Object" }

BinaryShaped == {"Document", "Image", "Video", "Audio"}

\* schema.rs:353
parse_value_bytes_Number(bytes) == SimpleValueFromSlice(bytes)

\* schema.rs:354-367
parse_value_bytes_Text(bytes) ==
    AndThen(StringFromUtf8(bytes), LAMBDA text : Ok(SimpleValue_Text(text)))

\* schema.rs:368-373
parse_value_bytes_Binary(bytes) ==
    Ok(SimpleValue_ListNumber([i \in DOMAIN bytes |-> NumberFromU8(bytes[i])]))

\* schema.rs:374-379: todo!()
parse_value_bytes_Unsupported(bytes) == Todo(bytes)

parse_value_bytes(self, bytes) ==
    CASE self = "Number" -> parse_value_bytes_Number(bytes)
      [] self \in TextShaped -> parse_value_bytes_Text(bytes)
      [] self \in BinaryShaped -> parse_value_bytes_Binary(bytes)
      [] self \in {"MultiReference", "MediaGallery", "MultiDocument", "Tags"} ->
            parse_value_bytes_Unsupported(bytes)

(***************************************************************************)
(* SchematicFieldType::parse_value (schema.rs:383-467), one operator per   *)
(* group of match arms.                                                    *)
(***************************************************************************)
\* a faulty parse_value_Text: every text-like type stored under the Text variant
parse_value_Text_AlwaysText(variant, received) == Wrap("Text", try_as_text(received))

\* Text, Email, Phone, Address, RichContent, RichText: the text as it is
parse_value_Text(variant, received) == Wrap(variant, try_as_text(received))

parse_value_Number(received) == Wrap("Number", try_as_number(received))

parse_value_URL(received) ==
    AndThen(try_as_text(received), LAMBDA text : Wrap("Url", UrlParse(text)))

BoolTrueWords == {S(<<"1">>), S(<<"o", "n">>), S(<<"t", "r", "u", "e">>)}

BoolFalseWords == {S(<<"0">>), S(<<"o", "f", "f">>), S(<<"f", "a", "l", "s", "e">>)}

\* a faulty BooleanOfText: the text is lower-cased before it is matched
BooleanOfText_IgnoreCase(text) ==
    LET lower == [i \in DOMAIN text |-> ToLower(text[i])]
    IN  IF lower \in BoolTrueWords THEN Ok(TRUE)
        ELSE IF lower \in BoolFalseWords THEN Ok(FALSE)
        ELSE BoolFromStr(lower)

\* the match on the text: the six words, then v.parse()
BooleanOfText(text) ==
    IF text \in BoolTrueWords THEN Ok(TRUE)
    ELSE IF text \in BoolFalseWords THEN Ok(FALSE)
    ELSE BoolFromStr(text)

parse_value_Boolean(received) ==
    AndThen(try_as_text(received), LAMBDA text : Wrap("Boolean", BooleanOfText(text)))

\* `if let Ok(v) = first { v } else { second? }`
OrElse(first, second) == IF IsOk(first) THEN first ELSE second

\* a faulty DateTimeOfText: the minute pattern alone, no second attempt
DateTimeOfText_NoFallback(text) == PrimitiveDateTimeParse(text, FmtDateTimeMinute)

\* the minute pattern, and the second pattern when that fails
DateTimeOfText(text) ==
    OrElse(PrimitiveDateTimeParse(text, FmtDateTimeMinute),
           PrimitiveDateTimeParse(text, FmtDateTimeSecond))

parse_value_DateTime(received) ==
    AndThen(any_as_text(received),
            LAMBDA text : AndThen(DateTimeOfText(text),
                                  LAMBDA v : Ok(SchematicFieldValue("DateTime", assume_utc(v)))))

parse_value_Date(received) ==
    AndThen(any_as_text(received), LAMBDA text : Wrap("Date", DateParse(text, FmtDate)))

\* the second pattern, and the subsecond pattern when that fails
TimeOfText(text) ==
    OrElse(TimeParse(text, FmtTimeSecond), TimeParse(text, FmtTimeSubsecond))

parse_value_Time(received) ==
    AndThen(any_as_text(received), LAMBDA text : Wrap("Time", TimeOfText(text)))

parse_value_Reference(received) ==
    AndThen(try_as_text(received), LAMBDA text : Wrap("Reference", UuidFromStr(text)))

\* .map(|v| v.parse()).collect::<Result<Vec<_>, _>>(): the identities in order,
\* or the error of the first element that does not parse
RECURSIVE CollectUuids(_, _)
CollectUuids(strs, acc) ==
    IF strs = <<>> THEN Ok(acc)
    ELSE LET then(u) == IF IsOk(u) THEN CollectUuids(Tail(strs), Append(acc, u.val)) ELSE u
         IN  then(UuidFromStr(Head(strs)))

\* a faulty parse_value_MultiReference: malformed elements are dropped and the
\* rest returned (filter_map instead of collect::<Result<_, _>>)
parse_value_MultiReference_SkipMalformed(received) ==
    AndThen(try_as_list_string(received),
            LAMBDA strs :
                LET good == SelectSeq(strs, LAMBDA x : IsOk(UuidFromStr(x)))
                IN  Ok(SchematicFieldValue("MultiReference",
                                           [i \in DOMAIN good |-> UuidFromStr(good[i]).val])))

\* MultiReference and MediaGallery
parse_value_MultiReference(received) ==
    AndThen(try_as_list_string(received),
            LAMBDA strs : Wrap("MultiReference", CollectUuids(strs, <<>>)))

\* Document, Image, Video, Audio and Tags
parse_value_ListNumber(received) == Wrap("ListNumber", try_as_list_number(received))

\* a faulty parse_value_MultiDocument: handled like Document
parse_value_MultiDocument_AsDocument(received) == parse_value_ListNumber(received)

\* schema.rs:448: todo!("Multi Document")
parse_value_MultiDocument(received) == Todo("Multi Document")

\* the JSON of the received value: parsed from a Text, re-encoded from the rest
ReceivedJson(received) ==
    IF received.t = "Text" THEN JsonParse(received.text) ELSE Ok(SimpleValueToJson(received))

\* decoded into Vec<serde_json::Value>
parse_value_Array(received) ==
    AndThen(ReceivedJson(received), LAMBDA j : Wrap("Array", VecFromJson(j)))

\* decoded into serde_json::Value
parse_value_Object(received) ==
    AndThen(ReceivedJson(received), LAMBDA j : Wrap("Object", ValueFromJson(j)))

parse_value(self, received) ==
    CASE self = "Text" -> parse_value_Text("Text", received)
      [] self = "Number" -> parse_value_Number(received)
      [] self = "URL" -> parse_value_URL(received)
      [] self = "Email" -> parse_value_Text("Email", received)
      [] self = "Phone" -> parse_value_Text("Phone", received)
      [] self = "Address" -> parse_value_Text("Address", received)
      [] self = "Boolean" -> parse_value_Boolean(received)
      [] self = "DateTime" -> parse_value_DateTime(received)
      [] self = "Date" -> parse_value_Date(received)
      [] self = "Time" -> parse_value_Time(received)
      [] self = "RichContent" -> parse_value_Text("Text", received)
      [] self = "RichText" -> parse_value_Text("Text", received)
      [] self = "Reference" -> parse_value_Reference(received)
      [] self = "MultiReference" -> parse_value_MultiReference(received)
      [] self = "MediaGallery" -> parse_value_MultiReference(received)
      [] self \in {"Document", "Image", "Video", "Audio"} -> parse_value_ListNumber(received)
      [] self = "MultiDocument" -> parse_value_MultiDocument(received)
      [] self = "Tags" -> parse_value_ListNumber(received)
      [] self = "Array" -> parse_value_Array(received)
      [] self = "Object" -> parse_value_Object(received)

(***************************************************************************)
(* Serialize / Deserialize for SchematicFieldValue, derived with           *)
(* #[serde(tag = "type", content = "value")] (schema.rs:498-521): a JSON   *)
(* object holding the variant's name and the payload's own encoding.       *)
(***************************************************************************)
\* the variants' names as they are written on the wire
VariantWire ==
    [ Text |-> S(<<"T", "e", "x", "t">>),
      Number |-> S(<<"N", "u", "m", "b", "e", "r">>),
      Boolean |-> S(<<"B", "o", "o", "l", "e", "a", "n">>),
      Url |-> S(<<"U", "r", "l">>),
      Email |-> S(<<"E", "m", "a", "i", "l">>),
      Phone |-> S(<<"P", "h", "o", "n", "e">>),
      Address |-> S(<<"A", "d", "d", "r", "e", "s", "s">>),
      DateTime |-> S(<<"D", "a", "t", "e", "T", "i", "m", "e">>),
      Date |-> S(<<"D", "a", "t", "e">>),
      Time |-> S(<<"T", "i", "m", "e">>),
      Reference |-> S(<<"R", "e", "f", "e", "r", "e", "n", "c", "e">>),
      MultiReference |-> S(<<"M", "u", "l", "t", "i", "R", "e", "f", "e", "r", "e", "n", "c", "e">>),
      ListString |-> S(<<"L", "i", "s", "t", "S", "t", "r", "i", "n", "g">>),
      ListNumber |-> S(<<"L", "i", "s", "t", "N", "u", "m", "b", "e", "r">>),
      Array |-> S(<<"A", "r", "r", "a", "y">>),
      Object |-> S(<<"O", "b", "j", "e", "c", "t">>) ]

\* Display for Uuid: lower-case hexadecimal, hyphenated 8-4-4-4-12
UuidToString(u) ==
    LET hex(n) == IF n < 10 THEN 48 + n ELSE 87 + n
        h == [i \in 1..32 |->
                 hex(IF i % 2 = 1 THEN u[(i + 1) \div 2] \div 16 ELSE u[i \div 2] % 16)]
        dash == <<Ch("-")>>
    IN  SubSeq(h, 1, 8) \o dash \o SubSeq(h, 9, 12) \o dash \o SubSeq(h, 13, 16)
            \o dash \o SubSeq(h, 17, 20) \o dash \o SubSeq(h, 21, 32)

\* Url::as_str
UrlToString(u) == u.scheme \o <<Ch(":")>> \o u.rest

\* the payload of each variant, encoded by its own Serialize
SchematicFieldValueToJson(v) ==
    LET p == v.value
        payload ==
            CASE v.type \in {"Text", "Email", "Phone", "Address"} -> JStr(p)
              [] v.type = "Number" -> NumberToJson(p)
              [] v.type = "Boolean" -> JBool(p)
              [] v.type = "Url" -> JStr(UrlToString(p))
              [] v.type = "DateTime" -> DateTimeToJson(p)
              [] v.type = "Date" -> DateToJson(p)
              [] v.type = "Time" -> TimeToJson(p)
              [] v.type = "Reference" -> JStr(UuidToString(p))
              [] v.type = "MultiReference" -> JArr([i \in DOMAIN p |-> JStr(UuidToString(p[i]))])
              [] v.type = "ListString" -> JArr([i \in DOMAIN p |-> JStr(p[i])])
              [] v.type = "ListNumber" -> JArr([i \in DOMAIN p |-> NumberToJson(p[i])])
              [] v.type = "Array" -> JArr(p)
              [] v.type = "Object" -> p
    IN  JObj((S(<<"t", "y", "p", "e">>) :> JStr(VariantWire[v.type]))
                 @@ (S(<<"v", "a", "l", "u", "e">>) :> payload))

\* OffsetDateTime read from its text form "<date> <time> <offset>"
DateTimeFromSerdeString(s) ==
    LET n == Len(s)
        withOffset(pdt, off) ==
            IF IsOk(pdt) /\ off.ok /\ off.got["hour"] <= 25 /\ off.got["minute"] <= 59
                   /\ off.got["second"] <= 59
            THEN Ok([date |-> pdt.val.date, time |-> pdt.val.time,
                     offset |-> (IF s[n - 8] = Ch("-") THEN 0 - 1 ELSE 1)
                                    * (3600 * off.got["hour"] + 60 * off.got["minute"]
                                           + off.got["second"])])
            ELSE Err("serde_json::Error")
    IN  IF n < 10 \/ s[n - 9] # Ch(" ") \/ s[n - 8] \notin {Ch("+"), Ch("-")}
        THEN Err("serde_json::Error")
        ELSE withOffset(PrimitiveDateTimeParse(SubSeq(s, 1, n - 10),
                                               FmtDate \o <<" ">> \o FmtTimeSubsecond),
                        ParseItems(SubSeq(s, n - 7, n), FmtTimeSecond, EmptyParsed))

\* the payload of a variant decoded by its own Deserialize; the time types
\* read their text form only in the serde-human-readable build
PayloadFromJson(variant, c) ==
    LET decoded(r) == IF IsOk(r) THEN r ELSE Err("serde_json::Error")
        text == c.j = "str"
        readable == text /\ build = "serde-human-readable"
        fail == Err("serde_json::Error")
    IN  CASE variant \in {"Text", "Email", "Phone", "Address"} ->
                IF text THEN Ok(c.s) ELSE fail
          [] variant = "Number" -> IF IsJsonNumber(c) THEN Ok(NumberFromJson(c)) ELSE fail
          [] variant = "Boolean" -> IF c.j = "bool" THEN Ok(c.b) ELSE fail
          [] variant = "Url" -> IF text THEN decoded(UrlParse(c.s)) ELSE fail
          [] variant = "DateTime" ->
                IF readable THEN DateTimeFromSerdeString(c.s)
                ELSE IF c.j = "arr" THEN DateTimeFromJsonSeq(c.a) ELSE fail
          [] variant = "Date" ->
                IF readable THEN decoded(DateParse(c.s, FmtDate))
                ELSE IF c.j = "arr" THEN DateFromJsonSeq(c.a) ELSE fail
          [] variant = "Time" ->
                IF readable THEN decoded(TimeParse(c.s, FmtTimeSubsecond))
                ELSE IF c.j = "arr" THEN TimeFromJsonSeq(c.a) ELSE fail
          [] variant = "Reference" -> IF text THEN decoded(UuidFromStr(c.s)) ELSE fail
          [] variant = "MultiReference" ->
                IF c.j = "arr" /\ \A i \in DOMAIN c.a : c.a[i].j = "str"
                THEN decoded(CollectUuids([i \in DOMAIN c.a |-> c.a[i].s], <<>>))
                ELSE fail
          [] variant = "ListString" ->
                IF c.j = "arr" /\ \A i \in DOMAIN c.a : c.a[i].j = "str"
                THEN Ok([i \in DOMAIN c.a |-> c.a[i].s])
                ELSE fail
          [] variant = "ListNumber" ->
                IF c.j = "arr" /\ \A i \in DOMAIN c.a : IsJsonNumber(c.a[i])
                THEN Ok([i \in DOMAIN c.a |-> NumberFromJson(c.a[i])])
                ELSE fail
          [] variant = "Array" -> VecFromJson(c)
          [] variant = "Object" -> ValueFromJson(c)

\* the object's "type" names the variant and its "value" is the payload
SchematicFieldValueFromJson(j) ==
    LET type == S(<<"t", "y", "p", "e">>)
        value == S(<<"v", "a", "l", "u", "e">>)
        named == IF j.j = "obj" /\ {type, value} \subseteq DOMAIN j.o /\ j.o[type].j = "str"
                 THEN {n \in DOMAIN VariantWire : VariantWire[n] = j.o[type].s}
                 ELSE {}
        as(n) == Wrap(n, PayloadFromJson(n, j.o[value]))
    IN  IF named = {} THEN Err("serde_json::Error") ELSE as(CHOOSE n \in named : TRUE)

(***************************************************************************)
(* SchematicFieldKey (schema.rs:134-209): Id | Owner | CreatedAt |         *)
(* UpdatedAt | Other(String) | OtherStatic(&'static str).                  *)
(***************************************************************************)
SchematicFieldKey_Other(s) == [k |-> "Other", s |-> s]

SchematicFieldKey_OtherStatic(s) == [k |-> "OtherStatic", s |-> s]

\* SchematicFieldKey::as_str
as_str(self) ==
    CASE self.k = "Id" -> S(<<"_", "i", "d">>)
      [] self.k = "Owner" -> S(<<"_", "o", "w", "n", "e", "r">>)
      [] self.k = "CreatedAt" -> S(<<"_", "c", "r", "e", "a", "t", "e", "d", "A", "t">>)
      [] self.k = "UpdatedAt" -> S(<<"_", "u", "p", "d", "a", "t", "e", "d", "A", "t">>)
      [] self.k = "Other" -> self.s
      [] self.k = "OtherStatic" -> self.s

\* Hash for SchematicFieldKey: what it writes to the hasher, which for a str
\* is its bytes and then 0xff
SchematicFieldKey_hash(self) == as_str(self) \o <<255>>

\* a faulty PartialEq: derived, so the variants are compared before the text
SchematicFieldKey_eq_Derived(self, other) == self = other

\* PartialEq for SchematicFieldKey
SchematicFieldKey_eq(self, other) == as_str(self) = as_str(other)

\* Serialize for SchematicFieldKey
SchematicFieldKey_serialize(self) == JStr(as_str(self))

\* a faulty Deserialize: every string kept as Other
SchematicFieldKey_deserialize_AlwaysOther(j) ==
    IF j.j = "str" THEN Ok(SchematicFieldKey_Other(j.s)) ELSE Err("serde_json::Error")

\* Deserialize for SchematicFieldKey
SchematicFieldKey_deserialize(j) ==
    IF j.j # "str" THEN Err("serde_json::Error")
    ELSE CASE j.s = S(<<"_", "i", "d">>) -> Ok([k |-> "Id"])
           [] j.s = S(<<"_", "o", "w", "n", "e", "r">>) -> Ok([k |-> "Owner"])
           [] j.s = S(<<"_", "c", "r", "e", "a", "t", "e", "d", "A", "t">>) ->
                 Ok([k |-> "CreatedAt"])
           [] j.s = S(<<"_", "u", "p", "d", "a", "t", "e", "d", "A", "t">>) ->
                 Ok([k |-> "UpdatedAt"])
           [] OTHER -> Ok(SchematicFieldKey_Other(j.s))

(***************************************************************************)
(* CollectionName (uuid.rs:8-73): { id: String, ns: Option<String> }.      *)
(***************************************************************************)
None == [some |-> FALSE]

Some(v) == [some |-> TRUE, v |-> v]

\* a faulty split: at the last colon (rsplit_once)
split_once_Last(value) ==
    LET at == {i \in DOMAIN value : value[i] = Ch(":")}
        cut(i) == Some(<<SubSeq(value, 1, i - 1), SubSeq(value, i + 1, Len(value))>>)
    IN  IF at = {} THEN None ELSE cut(CHOOSE i \in at : \A j \in at : j <= i)

\* value.split_once(":"): the texts before and after the first colon
split_once(value) ==
    LET at == {i \in DOMAIN value : value[i] = Ch(":")}
        cut(i) == Some(<<SubSeq(value, 1, i - 1), SubSeq(value, i + 1, Len(value))>>)
    IN  IF at = {} THEN None ELSE cut(CHOOSE i \in at : \A j \in at : i <= j)

\* From<&str> for CollectionName
CollectionName_from(value) ==
    LET split(ab) == IF ab.some THEN [id |-> ab.v[2], ns |-> Some(ab.v[1])]
                     ELSE [id |-> value, ns |-> None]
    IN  split(split_once(value))

\* Deserialize for CollectionName
CollectionName_deserialize(j) ==
    LET split(ab) == IF ab.some THEN Ok([id |-> ab.v[2], ns |-> Some(ab.v[1])])
                     ELSE Ok([id |-> j.s, ns |-> None])
    IN  IF j.j # "str" THEN Err("serde_json::Error") ELSE split(split_once(j.s))

\* a faulty Serialize: the namespace is left out
CollectionName_serialize_NoNamespace(self) == JStr(self.id)

\* Serialize for CollectionName
CollectionName_serialize(self) ==
    IF self.ns.some THEN JStr(self.ns.v \o <<Ch(":")>> \o self.id) ELSE JStr(self.id)

(***************************************************************************)
(* UuidType (uuid.rs:75-141): Site(WebsitePublicId) | Addon(AddonUuid),    *)
(* both wrappers of a Uuid made by create_id! (id.rs:96-172).              *)
(***************************************************************************)
UuidType_Site(uuid) == [owner |-> "Site", uuid |-> uuid]

UuidType_Addon(uuid) == [owner |-> "Addon", uuid |-> uuid]

\* a faulty to_string: the Site prefix for both variants
UuidType_to_string_AlwaysSite(self) == <<Ch("s"), Ch(":")>> \o UuidToString(self.uuid)

\* ToString for UuidType
UuidType_to_string(self) ==
    IF self.owner = "Site" THEN <<Ch("s"), Ch(":")>> \o UuidToString(self.uuid)
    ELSE <<Ch("a"), Ch(":")>> \o UuidToString(self.uuid)

\* Serialize for UuidType
UuidType_serialize(self) == JStr(UuidType_to_string(self))

\* Uuid::try_parse_ascii(&bytes[2..]).unwrap(): indexing past the end and
\* unwrapping an error both panic
UuidFromTail(bytes) ==
    LET unwrap(r) ==
            IF IsOk(r) THEN r
            ELSE Panic("called Result::unwrap() on an Err value", r.err)
    IN  IF Len(bytes) < 2 THEN Panic("range start index out of range", Len(bytes))
        ELSE unwrap(UuidFromStr(Drop(bytes, 3)))

\* Deserialize for UuidType
UuidType_deserialize(j) ==
    LET value == j.s
        site(r) == IF IsOk(r) THEN Ok(UuidType_Site(r.val)) ELSE r
        addon(r) == IF IsOk(r) THEN Ok(UuidType_Addon(r.val)) ELSE r
        prefixed(bare) ==
            IF IsOk(bare) THEN site(bare)
            ELSE IF value = <<>> THEN Panic("index out of bounds", 0)
            ELSE IF value[1] = Ch("s") THEN site(UuidFromTail(value))
            ELSE IF value[1] = Ch("a") THEN addon(UuidFromTail(value))
            ELSE Err("Unknown")
    IN  IF j.j # "str" THEN Err("serde_json::Error") ELSE prefixed(UuidFromStr(value))

(***************************************************************************)
(* The upload metadata of SchematicFieldType (schema.rs:310-349).          *)
(***************************************************************************)
\* SchematicFieldType::is_upload_file_type
is_upload_file_type(self) ==
    self \in {"Document", "MultiDocument", "Audio", "Image", "Video"}

\* SchematicFieldType::max_bytes_length
max_bytes_length(self) ==
    CASE self = "Text" -> Some(1024 * 1024 * 1024)
      [] self = "Email" -> Some(100)
      [] self = "Number" -> Some(10)
      [] self = "URL" -> Some(1024)
      [] self = "Address" -> Some(1024)
      [] self = "Phone" -> Some(50)
      [] self = "Boolean" -> Some(1)
      [] self = "DateTime" -> Some(50)
      [] self = "Date" -> Some(50)
      [] self = "Time" -> Some(50)
      [] self = "RichContent" -> Some(1024 * 1024 * 10)
      [] self = "RichText" -> Some(1024 * 1024 * 10)
      [] self = "Reference" -> None
      [] self = "MultiReference" -> None
      [] self = "MediaGallery" -> Some(1024 * 1024 * 100)
      [] self = "Document" -> Some(1024 * 1024 * 100)
      [] self = "MultiDocument" -> Some(1024 * 1024 * 100)
      [] self = "Image" -> Some(1024 * 1024 * 100)
      [] self = "Video" -> Some(1024 * 1024 * 100)
      [] self = "Audio" -> Some(1024 * 1024 * 100)
      [] self = "Tags" -> None
      [] self = "Array" -> None
      [] self = "Object" -> None

(***************************************************************************)
(* The input sets.                                                         *)
(***************************************************************************)
\* texts for the Boolean coercion
BoolTexts ==
    { S(<<"1">>),    \* 1
      S(<<"o", "n">>),    \* on
      S(<<"t", "r", "u", "e">>),    \* true
      S(<<"0">>),    \* 0
      S(<<"o", "f", "f">>),    \* off
      S(<<"f", "a", "l", "s", "e">>),    \* false
      S(<<"m", "a", "y", "b", "e">>),    \* maybe
      S(<<"T", "R", "U", "E">>),    \* TRUE
      S(<<"T", "r", "u", "e">>),    \* True
      S(<<"O", "n">>),    \* On
      S(<<"y", "e", "s">>),    \* yes
      S(<<"n", "o">>),    \* no
      <<>>,    \* (empty)
      S(<<" ", "t", "r", "u", "e">>),    \*  true
      S(<<"t">>) }    \* t

\* texts for the DateTime coercion
DateTimeTexts ==
    { S(<<"2", "0", "2", "4", "-", "0", "1", "-", "1", "5", "T", "1", "0", ":", "3", "0">>),    \* 2024-01-15T10:30
      S(<<"2", "0", "2", "4", "-", "0", "1", "-", "1", "5", "T", "1", "0", ":", "3", "0", ":", "4", "5">>),    \* 2024-01-15T10:30:45
      S(<<"2", "0", "2", "4", "-", "0", "2", "-", "2", "9", "T", "2", "3", ":", "5", "9">>),    \* 2024-02-29T23:59
      S(<<"2", "0", "2", "3", "-", "0", "2", "-", "2", "9", "T", "0", "0", ":", "0", "0">>),    \* 2023-02-29T00:00
      S(<<"2", "0", "2", "4", "-", "0", "2", "-", "3", "0", "T", "1", "0", ":", "3", "0">>),    \* 2024-02-30T10:30
      S(<<"2", "0", "2", "4", "-", "0", "1", "-", "1", "5", "T", "2", "4", ":", "0", "0">>),    \* 2024-01-15T24:00
      S(<<"2", "0", "2", "4", "-", "0", "1", "-", "1", "5", "T", "1", "0", ":", "6", "0">>),    \* 2024-01-15T10:60
      S(<<"2", "0", "2", "4", "-", "0", "1", "-", "1", "5", "T", "1", "0", ":", "3", "0", ":", "6", "1">>),    \* 2024-01-15T10:30:61
      S(<<"2", "0", "2", "4", "-", "0", "1", "-", "1", "5", "T", "1", "0", ":", "3", "0", ":", "4", "5", ".", "5">>),    \* 2024-01-15T10:30:45.5
      S(<<"2", "0", "2", "4", "-", "0", "1", "-", "1", "5", " ", "1", "0", ":", "3", "0">>),    \* 2024-01-15 10:30
      S(<<"2", "0", "2", "4", "-", "1", "-", "1", "5", "T", "1", "0", ":", "3", "0">>),    \* 2024-1-15T10:30
      S(<<"2", "0", "2", "4", "-", "0", "1", "-", "1", "5", "T", "1", "0", ":", "3", "0", "Z">>),    \* 2024-01-15T10:30Z
      S(<<"2", "0", "2", "4", "-", "0", "1", "-", "1", "5", "T", "1", "0">>),    \* 2024-01-15T10
      S(<<"2", "0", "2", "4", "-", "0", "1", "-", "1", "5", "T", "1", "0", ":", "3", "0", ":">>),    \* 2024-01-15T10:30:
      S(<<"-", "0", "0", "4", "4", "-", "0", "3", "-", "1", "5", "T", "1", "2", ":", "0", "0">>),    \* -0044-03-15T12:00
      S(<<"2", "0", "2", "4", "-", "1", "3", "-", "0", "1", "T", "0", "0", ":", "0", "0", ":", "0", "0">>),    \* 2024-13-01T00:00:00
      S(<<"2", "0", "2", "4", "-", "0", "1", "-", "1", "5", " ", "1", "0", ":", "3", "0", ":", "4", "5", ".", "0", " ", "+", "0", "0", ":", "0", "0", ":", "0", "0">>) }    \* 2024-01-15 10:30:45.0 +00:00:00

\* texts for the Date coercion
DateTexts ==
    { S(<<"2", "0", "2", "4", "-", "0", "1", "-", "1", "5">>),    \* 2024-01-15
      S(<<"2", "0", "2", "4", "-", "0", "2", "-", "2", "9">>),    \* 2024-02-29
      S(<<"2", "0", "2", "3", "-", "0", "2", "-", "2", "9">>),    \* 2023-02-29
      S(<<"2", "0", "2", "4", "-", "1", "3", "-", "0", "1">>),    \* 2024-13-01
      S(<<"2", "0", "2", "4", "-", "0", "0", "-", "1", "0">>),    \* 2024-00-10
      S(<<"2", "0", "2", "4", "-", "0", "1", "-", "0", "0">>),    \* 2024-01-00
      S(<<"2", "0", "2", "4", "-", "0", "4", "-", "3", "1">>),    \* 2024-04-31
      S(<<"2", "0", "2", "4", "/", "0", "1", "/", "1", "5">>),    \* 2024/01/15
      S(<<"2", "4", "-", "0", "1", "-", "1", "5">>),    \* 24-01-15
      S(<<"2", "0", "2", "4", "-", "0", "1", "-", "5">>),    \* 2024-01-5
      S(<<"2", "0", "2", "4", "-", "0", "1", "-", "1", "5", " ">>),    \* 2024-01-15 
      S(<<"+", "2", "0", "2", "4", "-", "0", "1", "-", "1", "5">>),    \* +2024-01-15
      S(<<"1", "5", "-", "0", "1", "-", "2", "0", "2", "4">>) }    \* 15-01-2024

\* texts for the Time coercion
TimeTexts ==
    { S(<<"1", "0", ":", "3", "0", ":", "4", "5">>),    \* 10:30:45
      S(<<"0", "0", ":", "0", "0", ":", "0", "0">>),    \* 00:00:00
      S(<<"2", "3", ":", "5", "9", ":", "5", "9">>),    \* 23:59:59
      S(<<"1", "0", ":", "3", "0", ":", "4", "5", ".", "1", "2", "3">>),    \* 10:30:45.123
      S(<<"1", "0", ":", "3", "0", ":", "4", "5", ".", "5">>),    \* 10:30:45.5
      S(<<"1", "0", ":", "3", "0", ":", "4", "5", ".", "1", "2", "3", "4", "5", "6", "7", "8", "9">>),    \* 10:30:45.123456789
      S(<<"1", "0", ":", "3", "0", ":", "4", "5", ".", "1", "2", "3", "4", "5", "6", "7", "8", "9", "0">>),    \* 10:30:45.1234567890
      S(<<"1", "0", ":", "3", "0">>),    \* 10:30
      S(<<"2", "4", ":", "0", "0", ":", "0", "0">>),    \* 24:00:00
      S(<<"1", "0", ":", "6", "0", ":", "0", "0">>),    \* 10:60:00
      S(<<"1", "0", ":", "3", "0", ":", "4", "5", ".">>),    \* 10:30:45.
      S(<<"9", ":", "0", "5", ":", "0", "0">>),    \* 9:05:00
      S(<<"1", "0", ":", "3", "0", ":", "4", "5", ",", "5">>),    \* 10:30:45,5
      S(<<"1", "0", ".", "3", "0", ".", "4", "5">>),    \* 10.30.45
      S(<<"1", "0", ":", "3", "0", ":", "4", "5", ".", "0">>) }    \* 10:30:45.0

\* two identities in lower case
Uuid1Text == S(<<"6", "7", "e", "5", "5", "0", "4", "4", "-", "1", "0", "b", "1", "-", "4", "2", "6", "f", "-", "9", "2", "4", "7", "-", "b", "b", "6", "8", "0", "e", "5", "f", "e", "0", "c", "8">>)

Uuid2Text == S(<<"0", "0", "0", "0", "0", "0", "0", "0", "-", "0", "0", "0", "0", "-", "4", "0", "0", "0", "-", "8", "0", "0", "0", "-", "0", "0", "0", "0", "0", "0", "0", "0", "0", "0", "f", "f">>)

\* texts for the Reference coercion: the four accepted spellings, and malformed ones
UuidTexts ==
    { S(<<"6", "7", "e", "5", "5", "0", "4", "4", "-", "1", "0", "b", "1", "-", "4", "2", "6", "f", "-", "9", "2", "4", "7", "-", "b", "b", "6", "8", "0", "e", "5", "f", "e", "0", "c", "8">>),    \* 67e55044-10b1-426f-9247-bb680e5fe0c8
      S(<<"0", "0", "0", "0", "0", "0", "0", "0", "-", "0", "0", "0", "0", "-", "4", "0", "0", "0", "-", "8", "0", "0", "0", "-", "0", "0", "0", "0", "0", "0", "0", "0", "0", "0", "f", "f">>),    \* 00000000-0000-4000-8000-0000000000ff
      S(<<"6", "7", "E", "5", "5", "0", "4", "4", "-", "1", "0", "B", "1", "-", "4", "2", "6", "F", "-", "9", "2", "4", "7", "-", "B", "B", "6", "8", "0", "E", "5", "F", "E", "0", "C", "8">>),    \* 67E55044-10B1-426F-9247-BB680E5FE0C8
      S(<<"6", "7", "e", "5", "5", "0", "4", "4", "1", "0", "b", "1", "4", "2", "6", "f", "9", "2", "4", "7", "b", "b", "6", "8", "0", "e", "5", "f", "e", "0", "c", "8">>),    \* 67e5504410b1426f9247bb680e5fe0c8
      S(<<"{", "6", "7", "e", "5", "5", "0", "4", "4", "-", "1", "0", "b", "1", "-", "4", "2", "6", "f", "-", "9", "2", "4", "7", "-", "b", "b", "6", "8", "0", "e", "5", "f", "e", "0", "c", "8", "}">>),    \* {67e55044-10b1-426f-9247-bb680e5fe0c8}
      S(<<"u", "r", "n", ":", "u", "u", "i", "d", ":", "6", "7", "e", "5", "5", "0", "4", "4", "-", "1", "0", "b", "1", "-", "4", "2", "6", "f", "-", "9", "2", "4", "7", "-", "b", "b", "6", "8", "0", "e", "5", "f", "e", "0", "c", "8">>),    \* urn:uuid:67e55044-10b1-426f-9247-bb680e5fe0c8
      S(<<"n", "o", "t", "-", "a", "-", "u", "u", "i", "d">>),    \* not-a-uuid
      S(<<"6", "7", "e", "5", "5", "0", "4", "4", "-", "1", "0", "b", "1", "-", "4", "2", "6", "f", "-", "9", "2", "4", "7", "-", "b", "b", "6", "8", "0", "e", "5", "f", "e", "0", "c", "g">>),    \* 67e55044-10b1-426f-9247-bb680e5fe0cg
      S(<<"6", "7", "e", "5", "5", "0", "4", "4", "-", "1", "0", "b", "1", "-", "4", "2", "6", "f", "-", "9", "2", "4", "7", "-", "b", "b", "6", "8", "0", "e", "5", "f", "e", "0", "c">>),    \* 67e55044-10b1-426f-9247-bb680e5fe0c
      S(<<"6", "7", "e", "5", "5", "0", "4", "4", "_", "1", "0", "b", "1", "_", "4", "2", "6", "f", "_", "9", "2", "4", "7", "_", "b", "b", "6", "8", "0", "e", "5", "f", "e", "0", "c", "8">>),    \* 67e55044_10b1_426f_9247_bb680e5fe0c8
      S(<<"{", "6", "7", "e", "5", "5", "0", "4", "4", "-", "1", "0", "b", "1", "-", "4", "2", "6", "f", "-", "9", "2", "4", "7", "-", "b", "b", "6", "8", "0", "e", "5", "f", "e", "0", "c", "8">>),    \* {67e55044-10b1-426f-9247-bb680e5fe0c8
      S(<<"6", "7", "e", "5", "5", "0", "4", "4", "1", "0", "b", "1", "4", "2", "6", "f", "9", "2", "4", "7", "b", "b", "6", "8", "0", "e", "5", "f", "e", "0", "c", "8", "a", "b", "c", "d">>) }    \* 67e5504410b1426f9247bb680e5fe0c8abcd

\* the elements the string lists are built of: well-formed and malformed
UuidListTexts ==
    { Uuid1Text, Uuid2Text,
      S(<<"6", "7", "E", "5", "5", "0", "4", "4", "-", "1", "0", "B", "1", "-", "4", "2", "6", "F", "-", "9", "2", "4", "7", "-", "B", "B", "6", "8", "0", "E", "5", "F", "E", "0", "C", "8">>),
      S(<<"n", "o", "t", "-", "a", "-", "u", "u", "i", "d">>) }

\* texts for the URL coercion
UrlTexts ==
    { S(<<"h", "t", "t", "p", ":", "/", "/", "a", ".", "b", "/">>),    \* http://a.b/
      S(<<"h", "t", "t", "p", "s", ":", "/", "/", "a", ".", "b", "/", "c", "?", "d", "#", "e">>),    \* https://a.b/c?d#e
      S(<<"H", "T", "T", "P", ":", "/", "/", "A", ".", "B">>),    \* HTTP://A.B
      S(<<"m", "a", "i", "l", "t", "o", ":", "a", "@", "b", ".", "c">>),    \* mailto:a@b.c
      S(<<"h", "t", "t", "p", ":", "/", "/">>),    \* http://
      S(<<"h", "t", "t", "p", ":">>),    \* http:
      S(<<"a", " ", "b">>),    \* a b
      S(<<"/", "x">>),    \* /x
      S(<<":", "/", "/", "x">>),    \* ://x
      S(<<"1", "t", "t", "p", ":", "/", "/", "a">>),    \* 1ttp://a
      S(<<"h", "t", "t", "p", ":", "/", "/", "a", " ", "b", "/">>),    \* http://a b/
      S(<<"x", ":">>) }    \* x:

\* texts for the Array and Object coercions, also the bytes of the Number byte path
JsonTexts ==
    { S(<<"[", "1", ",", "2", "]">>),    \* [1,2]
      S(<<"[", "]">>),    \* []
      S(<<" ", "[", " ", "]", " ">>),    \*  [ ] 
      S(<<"{", "}">>),    \* {}
      S(<<"{", "\"", "a", "\"", ":", "1", "}">>),    \* {"a":1}
      S(<<"{", "\"", "a", "\"", ":", "[", "1", ",", "{", "\"", "b", "\"", ":", "n", "u", "l", "l", "}", "]", "}">>),    \* {"a":[1,{"b":null}]}
      S(<<"3">>),    \* 3
      S(<<"-", "2">>),    \* -2
      S(<<"1", ".", "5">>),    \* 1.5
      S(<<"1", "e", "2">>),    \* 1e2
      S(<<"3", "0", "0">>),    \* 300
      S(<<"0">>),    \* 0
      S(<<"2", "5", "5">>),    \* 255
      S(<<"2", "5", "6">>),    \* 256
      S(<<"\"", "x", "\"">>),    \* "x"
      S(<<"\"", "\"">>),    \* ""
      S(<<"n", "u", "l", "l">>),    \* null
      S(<<"t", "r", "u", "e">>),    \* true
      S(<<"f", "a", "l", "s", "e">>),    \* false
      S(<<"[", "\"", "a", "\"", ",", "\"", "b", "\"", "]">>),    \* ["a","b"]
      S(<<"[", "2", "0", "2", "4", ",", "1", "5", "]">>),    \* [2024,15]
      S(<<"[", "1", ",", "2", ",", "3", ",", "4", "]">>),    \* [1,2,3,4]
      S(<<"[", "1", ",", "\"", "a", "\"", "]">>),    \* [1,"a"]
      S(<<"[", "1", ".", "5", ",", "2", "]">>),    \* [1.5,2]
      S(<<"[", "1", ",">>),    \* [1,
      S(<<"[", "1", ",", "]">>),    \* [1,]
      S(<<"{", "\"", "a", "\"", "}">>),    \* {"a"}
      S(<<"{", "\"", "a", "\"", ":", "1", ",", "}">>),    \* {"a":1,}
      S(<<"0", "1">>),    \* 01
      S(<<"t", "r", "u">>),    \* tru
      S(<<"1", ".">>),    \* 1.
      S(<<"-">>),    \* -
      S(<<"3", " ", "4">>),    \* 3 4
      S(<<"\"", "a">>),    \* "a
      S(<<"\"", "a", "\\", "n", "\"">>),    \* "a\n"
      S(<<"{", "\"", "a", "\"", ":", "1", ",", "\"", "a", "\"", ":", "2", "}">>) }    \* {"a":1,"a":2}

SampleTexts == BoolTexts \cup DateTimeTexts \cup DateTexts \cup TimeTexts \cup UuidTexts
                   \cup UrlTexts \cup JsonTexts

\* Numbers of the three variants, several of them numerically equal across variants
SampleNumbers ==
    { Byte(0), Byte(3), Byte(200), Integer(0), Integer(1), Integer(3), Integer(200),
      Integer(0 - 1), Integer(1000), Float(F64(3, 0)), Float(F64(15, 1)),
      Float(F64(0 - 5, 1)), Float(F64(200, 0)) }

\* the elements the number lists are built of
ListNumbers == {Byte(7), Integer(300), Float(F64(15, 1))}

SampleDates == {[year |-> 2024, month |-> 1, day |-> 15], [year |-> 2023, month |-> 12, day |-> 31]}

SampleTimes ==
    { [hour |-> 10, minute |-> 30, second |-> 45, nanosecond |-> 0],
      [hour |-> 9, minute |-> 5, second |-> 0, nanosecond |-> 500000000] }

SampleDateTimes == {[date |-> d, time |-> t, offset |-> 0] : d \in SampleDates, t \in SampleTimes}

SampleJsonArrays ==
    { <<>>, <<JInt(1), JStr(S(<<"a">>))>>, <<JNull>>, <<JArr(<<>>), JBool(TRUE)>> }

SampleJsonValues ==
    { JNull, JInt(3), JStr(S(<<"a">>)), JObj(EmptyParsed),
      JObj(S(<<"a">>) :> JInt(1)), JArr(<<JInt(1)>>) }

\* all sequences over `elems` of length at most n
SeqsUpTo(elems, n) == UNION {[1..k -> elems] : k \in 0..n}

SimpleValues ==
    {SimpleValue_Text(x) : x \in SampleTexts}
        \cup {SimpleValue_Number(x) : x \in SampleNumbers}
        \cup {SimpleValue_Boolean(x) : x \in BOOLEAN}
        \cup {SimpleValue_DateTime(x) : x \in SampleDateTimes}
        \cup {SimpleValue_Date(x) : x \in SampleDates}
        \cup {SimpleValue_Time(x) : x \in SampleTimes}
        \cup {SimpleValue_ListString(x) : x \in SeqsUpTo(UuidListTexts, MaxListLen)}
        \cup {SimpleValue_ListNumber(x) : x \in SeqsUpTo(ListNumbers, MaxListLen)}
        \cup {SimpleValue_ArrayUnknown(x) : x \in SampleJsonArrays}
        \cup {SimpleValue_ObjectUnknown(x) : x \in SampleJsonValues}

\* bytes the enumerated byte sequences are built of: ASCII, the two bytes of a
\* two-byte UTF-8 sequence, a lone continuation byte and a byte no UTF-8 text holds
ByteAlphabet == {Ch("1"), Ch("a"), 195, 169, 128, 255}

\* longer byte sequences: JSON texts, and well- and ill-formed multi-byte UTF-8
SampleByteStrings ==
    JsonTexts \cup BoolTexts
        \cup { <<226, 130, 172>>, <<226, 130>>, <<224, 128, 128>>, <<237, 160, 128>>,
               <<240, 159, 152, 128>>, <<240, 128, 128, 128>>, <<244, 144, 128, 128>>,
               <<192, 128>>, <<Ch("a"), 226, 130, 172, Ch("b")>>, <<0, 127>> }

ByteStrings == SeqsUpTo(ByteAlphabet, MaxBytesLen) \cup SampleByteStrings

\* which build of the `time` crate's serde support
Builds == {"serde", "serde-human-readable"}

\* SchematicFieldValues of every variant; the Numbers include Integers and
\* Floats whose numeric value fits a byte
SampleFieldValues ==
    {SchematicFieldValue(t, x) : t \in {"Text", "Email", "Phone", "Address"},
                                 x \in {<<>>, S(<<"a">>), <<195, 169>>}}
        \cup {SchematicFieldValue("Number", x) : x \in SampleNumbers}
        \cup {SchematicFieldValue("Boolean", x) : x \in BOOLEAN}
        \cup {SchematicFieldValue("Url", UrlParse(x).val) : x \in {y \in UrlTexts : IsOk(UrlParse(y))}}
        \cup {SchematicFieldValue("DateTime", x) : x \in SampleDateTimes}
        \cup {SchematicFieldValue("Date", x) : x \in SampleDates}
        \cup {SchematicFieldValue("Time", x) : x \in SampleTimes}
        \cup {SchematicFieldValue("Reference", UuidFromStr(x).val) : x \in {Uuid1Text, Uuid2Text}}
        \cup {SchematicFieldValue("MultiReference", [i \in DOMAIN x |-> UuidFromStr(x[i]).val]) :
                x \in SeqsUpTo({Uuid1Text, Uuid2Text}, MaxListLen)}
        \cup {SchematicFieldValue("ListString", x) :
                x \in SeqsUpTo({<<>>, S(<<"a">>)}, MaxListLen)}
        \cup {SchematicFieldValue("ListNumber", x) :
                x \in SeqsUpTo(ListNumbers \cup {Integer(3)}, MaxListLen)}
        \cup {SchematicFieldValue("Array", x) : x \in SampleJsonArrays}
        \cup {SchematicFieldValue("Object", x) : x \in SampleJsonValues}

SerdeCalls == [op : {"SchematicFieldValue::serde"}, self : SampleFieldValues]

\* field names: the four reserved ones, near misses and ordinary names
KeyTexts ==
    { S(<<"_", "i", "d">>), S(<<"_", "o", "w", "n", "e", "r">>),
      S(<<"_", "c", "r", "e", "a", "t", "e", "d", "A", "t">>),
      S(<<"_", "u", "p", "d", "a", "t", "e", "d", "A", "t">>),
      <<>>, S(<<"i", "d">>), S(<<"_", "I", "D">>), S(<<"_", "i", "d", " ">>),
      S(<<"_", "o", "w", "n", "e", "r", "s">>), S(<<"t", "i", "t", "l", "e">>) }

SampleKeys ==
    {[k |-> x] : x \in {"Id", "Owner", "CreatedAt", "UpdatedAt"}}
        \cup {SchematicFieldKey_Other(x) : x \in KeyTexts}
        \cup {SchematicFieldKey_OtherStatic(x) : x \in KeyTexts}

KeyCmpCalls == [op : {"SchematicFieldKey::eq"}, self : SampleKeys, arg : SampleKeys]

KeySerdeCalls == [op : {"SchematicFieldKey::serde"}, self : SampleKeys]

\* collection names as texts: every text over a colon and two letters, and the
\* names the documentation uses
CollectionTexts ==
    SeqsUpTo({Ch(":"), Ch("x"), Ch("y")}, MaxBytesLen)
        \cup { S(<<"p", "o", "s", "t", "s">>),
               S(<<"b", "l", "o", "g", ":", "p", "o", "s", "t", "s">>),
               S(<<"x", ":", "y", ":", "z">>), S(<<":", ":", "a", ":">>) }

SampleCollectionNames ==
    [id : {<<>>, S(<<"p", "o", "s", "t", "s">>), S(<<"y", ":", "z">>)},
     ns : {None, Some(<<>>), Some(S(<<"b", "l", "o", "g">>)), Some(S(<<"x">>))}]

CollectionDecodeCalls == [op : {"CollectionName::decode"}, arg : CollectionTexts]

CollectionEncodeCalls == [op : {"CollectionName::serialize"}, self : SampleCollectionNames]

\* texts for the UuidType decoder: bare and prefixed identities in the accepted
\* spellings, other prefixes, and texts too short or not an identity
UuidTypeTexts ==
    { S(<<"6", "7", "e", "5", "5", "0", "4", "4", "-", "1", "0", "b", "1", "-", "4", "2", "6", "f", "-", "9", "2", "4", "7", "-", "b", "b", "6", "8", "0", "e", "5", "f", "e", "0", "c", "8">>),    \* 67e55044-10b1-426f-9247-bb680e5fe0c8
      S(<<"s", ":", "6", "7", "e", "5", "5", "0", "4", "4", "-", "1", "0", "b", "1", "-", "4", "2", "6", "f", "-", "9", "2", "4", "7", "-", "b", "b", "6", "8", "0", "e", "5", "f", "e", "0", "c", "8">>),    \* s:67e55044-10b1-426f-9247-bb680e5fe0c8
      S(<<"a", ":", "6", "7", "e", "5", "5", "0", "4", "4", "-", "1", "0", "b", "1", "-", "4", "2", "6", "f", "-", "9", "2", "4", "7", "-", "b", "b", "6", "8", "0", "e", "5", "f", "e", "0", "c", "8">>),    \* a:67e55044-10b1-426f-9247-bb680e5fe0c8
      S(<<"x", ":", "6", "7", "e", "5", "5", "0", "4", "4", "-", "1", "0", "b", "1", "-", "4", "2", "6", "f", "-", "9", "2", "4", "7", "-", "b", "b", "6", "8", "0", "e", "5", "f", "e", "0", "c", "8">>),    \* x:67e55044-10b1-426f-9247-bb680e5fe0c8
      S(<<"s", "X", "6", "7", "e", "5", "5", "0", "4", "4", "-", "1", "0", "b", "1", "-", "4", "2", "6", "f", "-", "9", "2", "4", "7", "-", "b", "b", "6", "8", "0", "e", "5", "f", "e", "0", "c", "8">>),    \* sX67e55044-10b1-426f-9247-bb680e5fe0c8
      S(<<"a", "b", "6", "7", "e", "5", "5", "0", "4", "4", "-", "1", "0", "b", "1", "-", "4", "2", "6", "f", "-", "9", "2", "4", "7", "-", "b", "b", "6", "8", "0", "e", "5", "f", "e", "0", "c", "8">>),    \* ab67e55044-10b1-426f-9247-bb680e5fe0c8
      S(<<"S", ":", "6", "7", "e", "5", "5", "0", "4", "4", "-", "1", "0", "b", "1", "-", "4", "2", "6", "f", "-", "9", "2", "4", "7", "-", "b", "b", "6", "8", "0", "e", "5", "f", "e", "0", "c", "8">>),    \* S:67e55044-10b1-426f-9247-bb680e5fe0c8
      S(<<":", "6", "7", "e", "5", "5", "0", "4", "4", "-", "1", "0", "b", "1", "-", "4", "2", "6", "f", "-", "9", "2", "4", "7", "-", "b", "b", "6", "8", "0", "e", "5", "f", "e", "0", "c", "8">>),    \* :67e55044-10b1-426f-9247-bb680e5fe0c8
      S(<<"s", "s", ":", "6", "7", "e", "5", "5", "0", "4", "4", "-", "1", "0", "b", "1", "-", "4", "2", "6", "f", "-", "9", "2", "4", "7", "-", "b", "b", "6", "8", "0", "e", "5", "f", "e", "0", "c", "8">>),    \* ss:67e55044-10b1-426f-9247-bb680e5fe0c8
      S(<<"s", ":", "6", "7", "E", "5", "5", "0", "4", "4", "-", "1", "0", "B", "1", "-", "4", "2", "6", "F", "-", "9", "2", "4", "7", "-", "B", "B", "6", "8", "0", "E", "5", "F", "E", "0", "C", "8">>),    \* s:67E55044-10B1-426F-9247-BB680E5FE0C8
      S(<<"a", ":", "6", "7", "e", "5", "5", "0", "4", "4", "1", "0", "b", "1", "4", "2", "6", "f", "9", "2", "4", "7", "b", "b", "6", "8", "0", "e", "5", "f", "e", "0", "c", "8">>),    \* a:67e5504410b1426f9247bb680e5fe0c8
      S(<<"6", "7", "e", "5", "5", "0", "4", "4", "1", "0", "b", "1", "4", "2", "6", "f", "9", "2", "4", "7", "b", "b", "6", "8", "0", "e", "5", "f", "e", "0", "c", "8">>),    \* 67e5504410b1426f9247bb680e5fe0c8
      S(<<"a", ":", "{", "6", "7", "e", "5", "5", "0", "4", "4", "-", "1", "0", "b", "1", "-", "4", "2", "6", "f", "-", "9", "2", "4", "7", "-", "b", "b", "6", "8", "0", "e", "5", "f", "e", "0", "c", "8", "}">>),    \* a:{67e55044-10b1-426f-9247-bb680e5fe0c8}
      S(<<"{", "6", "7", "e", "5", "5", "0", "4", "4", "-", "1", "0", "b", "1", "-", "4", "2", "6", "f", "-", "9", "2", "4", "7", "-", "b", "b", "6", "8", "0", "e", "5", "f", "e", "0", "c", "8", "}">>),    \* {67e55044-10b1-426f-9247-bb680e5fe0c8}
      S(<<"s", ":", "u", "r", "n", ":", "u", "u", "i", "d", ":", "6", "7", "e", "5", "5", "0", "4", "4", "-", "1", "0", "b", "1", "-", "4", "2", "6", "f", "-", "9", "2", "4", "7", "-", "b", "b", "6", "8", "0", "e", "5", "f", "e", "0", "c", "8">>),    \* s:urn:uuid:67e55044-10b1-426f-9247-bb680e5fe0c8
      S(<<"s", ":", "0", "0", "0", "0", "0", "0", "0", "0", "-", "0", "0", "0", "0", "-", "4", "0", "0", "0", "-", "8", "0", "0", "0", "-", "0", "0", "0", "0", "0", "0", "0", "0", "0", "0", "f", "f">>),    \* s:00000000-0000-4000-8000-0000000000ff
      S(<<"a", ":", "0", "0", "0", "0", "0", "0", "0", "0", "-", "0", "0", "0", "0", "-", "4", "0", "0", "0", "-", "8", "0", "0", "0", "-", "0", "0", "0", "0", "0", "0", "0", "0", "0", "0", "f", "f">>),    \* a:00000000-0000-4000-8000-0000000000ff
      S(<<"0", "0", "0", "0", "0", "0", "0", "0", "-", "0", "0", "0", "0", "-", "4", "0", "0", "0", "-", "8", "0", "0", "0", "-", "0", "0", "0", "0", "0", "0", "0", "0", "0", "0", "f", "f">>),    \* 00000000-0000-4000-8000-0000000000ff
      <<>>,    \* (empty)
      S(<<"s">>),    \* s
      S(<<"a">>),    \* a
      S(<<"x">>),    \* x
      S(<<"s", ":">>),    \* s:
      S(<<"a", ":">>),    \* a:
      S(<<"x", ":">>),    \* x:
      S(<<"s", "a">>),    \* sa
      S(<<"s", ":", "n", "o", "t", "-", "a", "-", "u", "u", "i", "d">>),    \* s:not-a-uuid
      S(<<"a", ":", "6", "7", "e", "5", "5", "0", "4", "4", "-", "1", "0", "b", "1", "-", "4", "2", "6", "f", "-", "9", "2", "4", "7", "-", "b", "b", "6", "8", "0", "e", "5", "f", "e", "0", "c">>),    \* a:67e55044-10b1-426f-9247-bb680e5fe0c
      S(<<"a", ":", "6", "7", "e", "5", "5", "0", "4", "4", "-", "1", "0", "b", "1", "-", "4", "2", "6", "f", "-", "9", "2", "4", "7", "-", "b", "b", "6", "8", "0", "e", "5", "f", "e", "0", "c", "8", "0">>),    \* a:67e55044-10b1-426f-9247-bb680e5fe0c80
      S(<<"n", "o", "t", "-", "a", "-", "u", "u", "i", "d">>),    \* not-a-uuid
      S(<<"s", ":", "6", "7", "e", "5", "5", "0", "4", "4", "-", "1", "0", "b", "1", "-", "4", "2", "6", "f", "-", "9", "2", "4", "7", "-", "b", "b", "6", "8", "0", "e", "5", "f", "e", "0", "c", "g">>) }    \* s:67e55044-10b1-426f-9247-bb680e5fe0cg

SampleUuidTypes ==
    {UuidType_Site(UuidFromStr(x).val) : x \in {Uuid1Text, Uuid2Text}}
        \cup {UuidType_Addon(UuidFromStr(x).val) : x \in {Uuid1Text, Uuid2Text}}

UuidTypeDecodeCalls == [op : {"UuidType::deserialize"}, arg : UuidTypeTexts]

UuidTypeSerdeCalls == [op : {"UuidType::serde"}, self : SampleUuidTypes]

SimpleValueMethods ==
    { "any_as_text", "try_as_text", "try_as_number", "try_as_boolean", "try_as_date_time",
      "try_as_date", "try_as_time", "try_as_list_string", "try_as_list_number",
      "ensure_text", "ensure_number", "ensure_boolean", "ensure_date_time", "ensure_date",
      "ensure_time", "ensure_list_string", "ensure_list_number" }

SimpleValueMethodCalls ==
    [op : {"SimpleValue::method"}, name : SimpleValueMethods, self : SimpleValues]

SchematicFieldValueAccessors ==
    { "try_as_reference", "try_as_text", "try_as_number", "try_as_boolean", "try_as_url",
      "try_as_email", "try_as_phone", "try_as_address", "try_as_date_time", "try_as_date",
      "try_as_time", "try_as_list_string", "try_as_list_number", "try_as_list_reference",
      "try_as_array", "try_as_object" }

SchematicFieldValueAccessorCalls ==
    [ op : {"SchematicFieldValue::try_as"}, name : SchematicFieldValueAccessors,
      self : SampleFieldValues ]

\* Integers beyond 32 bits: 2^31, 2^32 - 1, 2^32, 2^32 + 5, -2^31 - 1, -2^32,
\* 2^63 - 1 and -2^63
WideNumbers ==
    { IntegerWide(0, 32768, 0), IntegerWide(0, 65535, 65535), IntegerWide(1, 0, 0),
      IntegerWide(1, 0, 5), IntegerWide(0 - 1, 32767, 65535), IntegerWide(0 - 1, 0, 0),
      IntegerWide(2147483647, 65535, 65535), IntegerWide(0 - 2147483647 - 1, 0, 0) }

\* Numbers for the conversions: every byte, Integers on both sides of the
\* ends of i32, and Floats with and without a fraction
ConvertNumbers ==
    {Byte(b) : b \in 0..255}
        \cup {Integer(v) : v \in {0, 1, 0 - 1, 255, 256, 65535, 65536, 0 - 65536, 0 - 65537,
                                    2147483647, 0 - 2147483647, 0 - 2147483647 - 1}}
        \cup {Float(F64(m, s)) : m \in {0, 3, 15, 0 - 15, 19, 0 - 19, 2147483647}, s \in 0..2}
        \cup SampleNumbers

NumberConvertCalls ==
    [op : {"Number::convert"}, name : {"convert_f64"}, self : ConvertNumbers]
        \cup [ op : {"Number::convert"},
               name : {"convert_i64", "From<Number> for i64", "From<Number> for i32"},
               self : ConvertNumbers \cup WideNumbers ]

\* integers around the codes and at the ends of i32
SampleCodes == ((0 - 3)..26) \cup {100, 255, 256, 2147483647, 0 - 2147483647 - 1}

TypeCodeCalls ==
    [op : {"SchematicFieldType::into"}, self : SchematicFieldType]
        \cup [op : {"SchematicFieldType::try_from"}, arg : SampleCodes]

\* JSON numbers: integers on both sides of the ends of u8, and numbers with a
\* fraction or written as a float
SampleJsonNumbers ==
    {JInt(i) : i \in ((0 - 2)..3) \cup (253..258) \cup {65536, 2147483647, 0 - 2147483647}}
        \cup {JFloat(F64(m, s)) : m \in {0, 3, 15, 0 - 15, 255}, s \in 0..1}

\* JSON values for the untagged decoder: strings (some of them dates and times
\* as text), booleans, numbers, arrays of strings, of numbers (some of them
\* shaped like a Date or a Time) and of both, null and objects
SampleWireValues ==
    {JStr(x) : x \in BoolTexts \cup DateTimeTexts \cup DateTexts \cup TimeTexts \cup JsonTexts}
        \cup {JBool(b) : b \in BOOLEAN}
        \cup SampleJsonNumbers
        \cup {JArr(a) : a \in SeqsUpTo({JStr(<<>>), JStr(Uuid1Text), JInt(3), JInt(2024)},
                                        MaxListLen)}
        \cup {JArr(<<JInt(2024), JInt(15)>>), JArr(<<JInt(10), JInt(30), JInt(45), JInt(0)>>),
              JArr(<<JBool(TRUE)>>), JArr(<<JArr(<<>>)>>)}
        \cup SampleJsonValues

DecodeCalls ==
    [op : {"SimpleValue::deserialize"}, arg : SampleWireValues]
        \cup [op : {"Number::deserialize"}, arg : SampleJsonNumbers]

\* lists of Numbers with several bytes, an Integer and a Float that fit a byte
ByteLists ==
    { SimpleValue_ListNumber(x) :
        x \in SeqsUpTo({Byte(0), Byte(7), Byte(255), Integer(7), Float(F64(7, 0))}, MaxListLen) }

IntoBytesCalls ==
    [op : {"Number::into_u8"}, self : ConvertNumbers \cup WideNumbers]
        \cup [op : {"SimpleValue::try_as_bytes"}, self : SimpleValues \cup ByteLists]

\* the field types whose parse_value takes a list of Numbers
NumericListTypes == {"Document", "Image", "Video", "Audio", "Tags"}

BytePathCalls == [op : {"byte path"}, self : NumericListTypes, arg : ByteStrings]

UploadMetadataCalls == [op : {"upload metadata"}, self : SchematicFieldType]

\* CollectionNames with and without a colon in the namespace and in the id
RoundTripNames ==
    [id : {<<>>, S(<<"p", "o", "s", "t", "s">>), S(<<"a", ":", "b">>), S(<<":">>)},
     ns : { None, Some(<<>>), Some(S(<<"b", "l", "o", "g">>)), Some(S(<<"x", ":", "y">>)),
            Some(S(<<":">>)) }]

CollectionRoundTripCalls ==
    [op : {"CollectionName::decode then encode"}, arg : CollectionTexts]
        \cup [op : {"CollectionName::encode then decode"}, self : RoundTripNames]

ParseValueCalls == [op : {"parse_value"}, self : SchematicFieldType, arg : SimpleValues]

ParseValueBytesCalls ==
    [op : {"parse_value_bytes"}, self : SchematicFieldType, arg : ByteStrings]

NumberCmpCalls == [op : {"Number::cmp"}, self : SampleNumbers, arg : SampleNumbers]

(***************************************************************************)
(* The state machine: a call is drawn, then applied.                       *)
(***************************************************************************)
Init ==
    /\ \/ call \in ParseValueCalls
       \/ call \in ParseValueBytesCalls
       \/ call \in NumberCmpCalls
       \/ call \in SerdeCalls
       \/ call \in KeyCmpCalls
       \/ call \in KeySerdeCalls
       \/ call \in CollectionDecodeCalls
       \/ call \in CollectionEncodeCalls
       \/ call \in UuidTypeDecodeCalls
       \/ call \in UuidTypeSerdeCalls
       \/ call \in SimpleValueMethodCalls
       \/ call \in SchematicFieldValueAccessorCalls
       \/ call \in NumberConvertCalls
       \/ call \in TypeCodeCalls
       \/ call \in DecodeCalls
       \/ call \in IntoBytesCalls
       \/ call \in BytePathCalls
       \/ call \in UploadMetadataCalls
       \/ call \in CollectionRoundTripCalls
    /\ build \in Builds
    /\ out = Pending

\* SchematicFieldType::parse_value(self, received)
ParseValue ==
    /\ call.op = "parse_value"
    /\ out = Pending
    /\ out' = parse_value(call.self, call.arg)
    /\ UNCHANGED <<call, build>>

\* SchematicFieldType::parse_value_bytes(self, bytes)
ParseValueBytes ==
    /\ call.op = "parse_value_bytes"
    /\ out = Pending
    /\ out' = parse_value_bytes(call.self, call.arg)
    /\ UNCHANGED <<call, build>>

\* a == b and a < b on two Numbers
NumberCmp ==
    /\ call.op = "Number::cmp"
    /\ out = Pending
    /\ out' = Ok([eq |-> NumberEq(call.self, call.arg), lt |-> NumberLt(call.self, call.arg)])
    /\ UNCHANGED <<call, build>>

\* serde_json::from_value(serde_json::to_value(v)) of a SchematicFieldValue v
SerdeRoundTrip ==
    /\ call.op = "SchematicFieldValue::serde"
    /\ out = Pending
    /\ out' = SchematicFieldValueFromJson(SchematicFieldValueToJson(call.self))
    /\ UNCHANGED <<call, build>>

\* a == b on two keys, and what each writes to a hasher
KeyCmp ==
    /\ call.op = "SchematicFieldKey::eq"
    /\ out = Pending
    /\ out' = Ok([eq |-> SchematicFieldKey_eq(call.self, call.arg),
                  hash |-> SchematicFieldKey_hash(call.self),
                  hashOther |-> SchematicFieldKey_hash(call.arg)])
    /\ UNCHANGED <<call, build>>

\* a key encoded, and the encoding decoded
KeySerde ==
    /\ call.op = "SchematicFieldKey::serde"
    /\ out = Pending
    /\ out' = Ok([wire |-> SchematicFieldKey_serialize(call.self),
                  back |-> SchematicFieldKey_deserialize(SchematicFieldKey_serialize(call.self))])
    /\ UNCHANGED <<call, build>>

\* a text made a CollectionName by From<&str> and by the JSON decoder
CollectionDecode ==
    /\ call.op = "CollectionName::decode"
    /\ out = Pending
    /\ out' = Ok([from |-> CollectionName_from(call.arg),
                  de |-> CollectionName_deserialize(JStr(call.arg))])
    /\ UNCHANGED <<call, build>>

\* a CollectionName encoded
CollectionEncode ==
    /\ call.op = "CollectionName::serialize"
    /\ out = Pending
    /\ out' = Ok(CollectionName_serialize(call.self))
    /\ UNCHANGED <<call, build>>

\* a JSON string decoded as a UuidType
UuidTypeDecode ==
    /\ call.op = "UuidType::deserialize"
    /\ out = Pending
    /\ out' = UuidType_deserialize(JStr(call.arg))
    /\ UNCHANGED <<call, build>>

\* a UuidType encoded, and the encoding decoded
UuidTypeSerde ==
    /\ call.op = "UuidType::serde"
    /\ out = Pending
    /\ out' = UuidType_deserialize(UuidType_serialize(call.self))
    /\ UNCHANGED <<call, build>>

\* a method of SimpleValue called on a value
SimpleValueMethod ==
    /\ call.op = "SimpleValue::method"
    /\ out = Pending
    /\ out' = SimpleValue_method(call.name, call.self)
    /\ UNCHANGED <<call, build>>

\* an accessor of SchematicFieldValue called on a value
SchematicFieldValueAccessor ==
    /\ call.op = "SchematicFieldValue::try_as"
    /\ out = Pending
    /\ out' = SchematicFieldValue_try_as(call.name, call.self)
    /\ UNCHANGED <<call, build>>

\* a Number converted to a host number
NumberConvert ==
    /\ call.op = "Number::convert"
    /\ out = Pending
    /\ out' = Ok(CASE call.name = "convert_f64" -> convert_f64(call.self)
                   [] call.name = "convert_i64" -> convert_i64(call.self)
                   [] call.name = "From<Number> for i64" -> i64_from_Number(call.self)
                   [] call.name = "From<Number> for i32" -> i32_from_Number(call.self))
    /\ UNCHANGED <<call, build>>

\* a field type converted to its code, and the code converted back
TypeIntoCode ==
    /\ call.op = "SchematicFieldType::into"
    /\ out = Pending
    /\ out' = Ok([ code |-> SchematicFieldType_into_i32(call.self),
                   back |-> SchematicFieldType_try_from_i32(
                                SchematicFieldType_into_i32(call.self)) ])
    /\ UNCHANGED <<call, build>>

\* an integer converted to a field type
TypeFromCode ==
    /\ call.op = "SchematicFieldType::try_from"
    /\ out = Pending
    /\ out' = SchematicFieldType_try_from_i32(call.arg)
    /\ UNCHANGED <<call, build>>

\* a JSON value decoded as a SimpleValue
SimpleValueDecode ==
    /\ call.op = "SimpleValue::deserialize"
    /\ out = Pending
    /\ out' = Ok(SimpleValueFromJson(call.arg))
    /\ UNCHANGED <<call, build>>

\* a JSON number decoded as a Number
NumberDecode ==
    /\ call.op = "Number::deserialize"
    /\ out = Pending
    /\ out' = Ok(NumberFromJson(call.arg))
    /\ UNCHANGED <<call, build>>

\* Number::into_u8(self)
NumberIntoU8 ==
    /\ call.op = "Number::into_u8"
    /\ out = Pending
    /\ out' = into_u8(call.self)
    /\ UNCHANGED <<call, build>>

\* SimpleValue::try_as_bytes(self)
SimpleValueTryAsBytes ==
    /\ call.op = "SimpleValue::try_as_bytes"
    /\ out = Pending
    /\ out' = try_as_bytes(call.self)
    /\ UNCHANGED <<call, build>>

\* bytes taken through parse_value_bytes, and what it gives through parse_value
\* of the same type and through try_as_bytes; a panic of the first ends the call
BytePath ==
    LET then(r) ==
            IF IsOk(r)
            THEN Ok([parsed |-> parse_value(call.self, r.val), bytes |-> try_as_bytes(r.val)])
            ELSE r
    IN  /\ call.op = "byte path"
        /\ out = Pending
        /\ out' = then(parse_value_bytes(call.self, call.arg))
        /\ UNCHANGED <<call, build>>

\* the two metadata lookups on a field type
UploadMetadata ==
    /\ call.op = "upload metadata"
    /\ out = Pending
    /\ out' = Ok([ upload |-> is_upload_file_type(call.self),
                   max |-> max_bytes_length(call.self) ])
    /\ UNCHANGED <<call, build>>

\* a text decoded as a CollectionName, and the name encoded
CollectionDecodeEncode ==
    LET then(r) == IF IsOk(r) THEN Ok(CollectionName_serialize(r.val)) ELSE r
    IN  /\ call.op = "CollectionName::decode then encode"
        /\ out = Pending
        /\ out' = then(CollectionName_deserialize(JStr(call.arg)))
        /\ UNCHANGED <<call, build>>

\* a CollectionName encoded, and the encoding decoded
CollectionEncodeDecode ==
    /\ call.op = "CollectionName::encode then decode"
    /\ out = Pending
    /\ out' = CollectionName_deserialize(CollectionName_serialize(call.self))
    /\ UNCHANGED <<call, build>>

Next ==
    \/ ParseValue
    \/ ParseValueBytes
    \/ NumberCmp
    \/ SerdeRoundTrip
    \/ KeyCmp
    \/ KeySerde
    \/ CollectionDecode
    \/ CollectionEncode
    \/ UuidTypeDecode
    \/ UuidTypeSerde
    \/ SimpleValueMethod
    \/ SchematicFieldValueAccessor
    \/ NumberConvert
    \/ TypeIntoCode
    \/ TypeFromCode
    \/ SimpleValueDecode
    \/ NumberDecode
    \/ NumberIntoU8
    \/ SimpleValueTryAsBytes
    \/ BytePath
    \/ UploadMetadata
    \/ CollectionDecodeEncode
    \/ CollectionEncodeDecode

Spec == Init /\ [][Next]_vars

\* the call has been applied
Done(op) == call.op = op /\ out # Pending

(***************************************************************************)
(* The claims.                                                             *)
(***************************************************************************)
\* C1: when parse_value(t, v) succeeds, the variant of the result is the one
\* the fixed table gives for t alone (no row for MultiDocument).
C1_VariantByType ==
    LET table ==
            [t \in SchematicFieldType \ {"MultiDocument"} |->
                CASE t \in {"Text", "RichContent", "RichText"} -> "Text"
                  [] t = "Number" -> "Number"
                  [] t = "URL" -> "Url"
                  [] t = "Email" -> "Email"
                  [] t = "Phone" -> "Phone"
                  [] t = "Address" -> "Address"
                  [] t = "Boolean" -> "Boolean"
                  [] t = "DateTime" -> "DateTime"
                  [] t = "Date" -> "Date"
                  [] t = "Time" -> "Time"
                  [] t = "Reference" -> "Reference"
                  [] t \in {"MultiReference", "MediaGallery"} -> "MultiReference"
                  [] t \in {"Document", "Image", "Video", "Audio", "Tags"} -> "ListNumber"
                  [] t = "Array" -> "Array"
                  [] t = "Object" -> "Object"]
    IN  Done("parse_value") /\ IsOk(out) =>
            call.self \in DOMAIN table /\ out.val.type = table[call.self]

\* a rich-content field coerced with success
C1_Witness == Done("parse_value") /\ call.self = "RichContent" /\ IsOk(out)

\* C2: parse_value and parse_value_bytes never panic: each call ends in a
\* value or in an error returned to the caller.
C2_NeverPanics ==
    call.op \in {"parse_value", "parse_value_bytes"} /\ out # Pending =>
        out.kind \in {"Ok", "Err"}

\* C3: the unsupported combinations end in the not-implemented fault for every
\* input, never in a value, and never in one of the returned errors.
C3_UnsupportedNotImplemented ==
    LET unsupported ==
            \/ call.op = "parse_value" /\ call.self = "MultiDocument"
            \/ /\ call.op = "parse_value_bytes"
               /\ call.self \in {"MultiReference", "MediaGallery", "MultiDocument", "Tags"}
    IN  unsupported /\ out # Pending =>
            /\ out.kind \notin {"Ok", "Err"}
            /\ IsPanic(out)
            /\ out.msg = "not yet implemented"

\* a number list, which the single-document types accept, offered to MultiDocument
C3_Witness ==
    /\ Done("parse_value")
    /\ call.self = "MultiDocument"
    /\ call.arg.t = "ListNumber"
    /\ IsPanic(out)

\* C4: for MultiReference and MediaGallery a string list coerces all or nothing:
\* the identities of all elements, in the order of the list, when every element
\* is a UUID, and a failure with no list at all when one element is not.
C4_AllOrNothing ==
    Done("parse_value") /\ call.self \in {"MultiReference", "MediaGallery"}
        /\ call.arg.t = "ListString" =>
        LET L == call.arg.strs
        IN  IF \A i \in DOMAIN L : IsOk(UuidFromStr(L[i]))
            THEN /\ IsOk(out)
                 /\ out.val.type = "MultiReference"
                 /\ Len(out.val.value) = Len(L)
                 /\ \A i \in DOMAIN L : out.val.value[i] = UuidFromStr(L[i]).val
            ELSE IsErr(out)

\* two different identities, returned in the order given
C4_Witness ==
    /\ Done("parse_value")
    /\ call.self = "MediaGallery"
    /\ call.arg = SimpleValue_ListString(<<Uuid1Text, Uuid2Text>>)
    /\ IsOk(out)
    /\ Len(out.val.value) = 2
    /\ out.val.value[1] # out.val.value[2]

\* C5: parse_value(Boolean, v) gives Boolean(true) for the texts 1, on, true,
\* Boolean(false) for 0, off, false (compared case-sensitively), a format error
\* for every other text and a type mismatch for every input that is not Text.
C5_BooleanWords ==
    Done("parse_value") /\ call.self = "Boolean" =>
        IF call.arg.t # "Text" THEN out = Err("Unable to convert to Text")
        ELSE IF call.arg.text \in {S(<<"1">>), S(<<"o", "n">>), S(<<"t", "r", "u", "e">>)}
        THEN out = Ok(SchematicFieldValue("Boolean", TRUE))
        ELSE IF call.arg.text
                    \in {S(<<"0">>), S(<<"o", "f", "f">>), S(<<"f", "a", "l", "s", "e">>)}
        THEN out = Ok(SchematicFieldValue("Boolean", FALSE))
        ELSE out = Err("ParseBoolError")

\* the text "maybe" reaches the generic parser and is refused
C5_Witness ==
    /\ Done("parse_value")
    /\ call.self = "Boolean"
    /\ call.arg = SimpleValue_Text(S(<<"m", "a", "y", "b", "e">>))
    /\ out = Err("ParseBoolError")

C7_TargetShape ==
    Done("parse_value") /\ call.self \in {"Array", "Object"} =>
        /\ IsOk(out) /\ call.self = "Array" =>
               DOMAIN out.val.value = 1..Len(out.val.value)
        /\ IsOk(out) /\ call.self = "Object" => out.val.value.j = "obj"
        /\ ~IsOk(out) => out = Err("serde_json::Error")

\* C8: parse_value_bytes(Number, b) is a SimpleValue::Number or a decode error.
C8_NumberBytesOnlyNumber ==
    Done("parse_value_bytes") /\ call.self = "Number" =>
        \/ IsOk(out) /\ out.val.t = "Number"
        \/ out = Err("serde_json::Error")

\* C9: for a text-shaped type the bytes come back as Text, unchanged, when
\* they are the UTF-8 encoding of Unicode scalar values, and as an encoding
\* error when not; for a binary-shaped type every byte sequence gives the
\* ListNumber of its bytes, each a Number::Byte, in order.
C9_ByteShapes ==
    LET Bits(s, i) == s[i] - 128
        \* the length of the shortest-form encoding of a scalar value at the
        \* head of s, 0 when there is none
        Scalar(s) ==
            LET b == s[1]
                n == CASE b < 128 -> 1
                       [] b \in 192..223 -> 2
                       [] b \in 224..239 -> 3
                       [] b \in 240..247 -> 4
                       [] OTHER -> 0
                cp == CASE n = 1 -> b
                        [] n = 2 -> (b - 192) * 64 + Bits(s, 2)
                        [] n = 3 -> (b - 224) * 4096 + Bits(s, 2) * 64 + Bits(s, 3)
                        [] n = 4 -> (b - 240) * 262144 + Bits(s, 2) * 4096
                                        + Bits(s, 3) * 64 + Bits(s, 4)
                least == CASE n = 1 -> 0 [] n = 2 -> 128 [] n = 3 -> 2048 [] n = 4 -> 65536
            IN  IF /\ n > 0
                   /\ Len(s) >= n
                   /\ \A i \in 2..n : s[i] \in 128..191
                   /\ cp >= least
                   /\ cp <= 1114111
                   /\ cp \notin 55296..57343
                THEN n ELSE 0
        RECURSIVE WellFormed(_)
        WellFormed(s) ==
            IF s = <<>> THEN TRUE
            ELSE LET rest(n) == n > 0 /\ WellFormed(SubSeq(s, n + 1, Len(s)))
                 IN  rest(Scalar(s))
    IN  Done("parse_value_bytes") =>
            /\ call.self \in {"Text", "URL", "Email", "Address", "Phone", "Boolean",
                              "DateTime", "Date", "Time", "RichContent", "RichText",
                              "Reference", "Array", "Object"} =>
                   out = IF WellFormed(call.arg) THEN Ok(SimpleValue_Text(call.arg))
                         ELSE Err("FromUtf8Error")
            /\ call.self \in {"Document", "Image", "Video", "Audio"} =>
                   /\ IsOk(out)
                   /\ out.val.t = "ListNumber"
                   /\ Len(out.val.nums) = Len(call.arg)
                   /\ \A i \in DOMAIN call.arg : out.val.nums[i] = Byte(call.arg[i])

\* the bytes of a two-byte character, returned as Text for a text-shaped type
C9_Witness ==
    /\ Done("parse_value_bytes")
    /\ call.self = "Reference"
    /\ call.arg = <<195, 169>>
    /\ out = Ok(SimpleValue_Text(<<195, 169>>))

\* C10: a == b exactly when the two Numbers widen to the same numeric value,
\* and a < b exactly when a's numeric value is the smaller, whatever the tags.
C10_NumericCompare ==
    Done("Number::cmp") =>
        /\ out.val.eq = F64Eq(convert_f64(call.self), convert_f64(call.arg))
        /\ out.val.lt = F64Lt(convert_f64(call.self), convert_f64(call.arg))

\* C11: a SchematicFieldValue encoded to its tagged form and decoded back is
\* the value it was, variant and payload, for every variant.
C11_SerdeRoundTrip == Done("SchematicFieldValue::serde") => out = Ok(call.self)

\* C12: two keys are equal exactly when their string forms are equal, and
\* equal keys write the same to a hasher; so Id, Other("_id") and
\* OtherStatic("_id") are one key, and likewise the other reserved names.
C12_KeyEqualityByString ==
    LET reserved == [Id |-> S(<<"_", "i", "d">>),
                     Owner |-> S(<<"_", "o", "w", "n", "e", "r">>),
                     CreatedAt |-> S(<<"_", "c", "r", "e", "a", "t", "e", "d", "A", "t">>),
                     UpdatedAt |-> S(<<"_", "u", "p", "d", "a", "t", "e", "d", "A", "t">>)]
        str(key) == IF key.k \in DOMAIN reserved THEN reserved[key.k] ELSE key.s
    IN  Done("SchematicFieldKey::eq") =>
            /\ out.val.eq <=> (str(call.self) = str(call.arg))
            /\ out.val.eq => out.val.hash = out.val.hashOther

\* Id and Other("_id"): equal, and hashed alike
C12_Witness ==
    /\ Done("SchematicFieldKey::eq")
    /\ call.self = [k |-> "Id"]
    /\ call.arg = SchematicFieldKey_Other(S(<<"_", "i", "d">>))
    /\ out.val.eq
    /\ out.val.hash = out.val.hashOther

\* C13: a key is encoded as its string form; the four reserved strings decode
\* to their named variants and any other string s to Other(s), never to an
\* Other holding a reserved name; a key decoded from its encoding equals it.
C13_KeyDecodesCanonically ==
    LET reserved == [Id |-> S(<<"_", "i", "d">>),
                     Owner |-> S(<<"_", "o", "w", "n", "e", "r">>),
                     CreatedAt |-> S(<<"_", "c", "r", "e", "a", "t", "e", "d", "A", "t">>),
                     UpdatedAt |-> S(<<"_", "u", "p", "d", "a", "t", "e", "d", "A", "t">>)]
        str(key) == IF key.k \in DOMAIN reserved THEN reserved[key.k] ELSE key.s
        named(s) == {n \in DOMAIN reserved : reserved[n] = s}
        decoded(s) == IF named(s) = {} THEN [k |-> "Other", s |-> s]
                      ELSE [k |-> CHOOSE n \in named(s) : TRUE]
    IN  Done("SchematicFieldKey::serde") =>
            /\ out.val.wire = [j |-> "str", s |-> str(call.self)]
            /\ out.val.back = Ok(decoded(str(call.self)))
            /\ out.val.back.val.k \in {"Other", "OtherStatic"} =>
                   named(out.val.back.val.s) = {}
            /\ str(out.val.back.val) = str(call.self)

\* a static name spelled like a reserved one comes back as the named variant
C13_Witness ==
    /\ Done("SchematicFieldKey::serde")
    /\ call.self = SchematicFieldKey_OtherStatic(S(<<"_", "o", "w", "n", "e", "r">>))
    /\ out.val.back = Ok([k |-> "Owner"])

\* C14: a text without a colon decodes to {id: the text, ns: none}; a text
\* with colons decodes to the ns before the first colon (so the ns holds no
\* colon) and the id after it; From<&str> and the JSON decoder agree; a name
\* is encoded as "ns:id", or as the id alone when it has no ns.
C14_SplitOnFirstColon ==
    LET colon == 58
        HasColon(s) == \E i \in DOMAIN s : s[i] = colon
        text == call.arg
        name == out.val.from
    IN  /\ Done("CollectionName::decode") =>
              /\ out.val.de = Ok(name)
              /\ IF HasColon(text)
                 THEN /\ name.ns.some
                      /\ ~HasColon(name.ns.v)
                      /\ name.ns.v \o <<colon>> \o name.id = text
                 ELSE name = [id |-> text, ns |-> [some |-> FALSE]]
        /\ Done("CollectionName::serialize") =>
              out.val = [j |-> "str",
                         s |-> IF call.self.ns.some
                               THEN call.self.ns.v \o <<colon>> \o call.self.id
                               ELSE call.self.id]

\* "x:y:z": only the first colon separates
C14_Witness ==
    /\ Done("CollectionName::decode")
    /\ call.arg = S(<<"x", ":", "y", ":", "z">>)
    /\ out.val.from = [id |-> S(<<"y", ":", "z">>), ns |-> Some(S(<<"x">>))]

\* C15: for a valid UUID u the text "s:u" decodes to Site(u), "a:u" to
\* Addon(u) and u alone to Site(u); a text that is no UUID and begins with a
\* byte other than s and a fails with the error "Unknown"; a UuidType decoded
\* from its encoding is the value it was.
C15_TwoBranchDispatch ==
    LET text == call.arg
        rest == SubSeq(text, 3, Len(text))
        Valid(s) == IsOk(UuidFromStr(s))
        Prefixed(p) == Len(text) >= 2 /\ text[1] = Ch(p) /\ text[2] = Ch(":") /\ Valid(rest)
    IN  /\ Done("UuidType::deserialize") =>
              /\ Valid(text) =>
                     out = Ok([owner |-> "Site", uuid |-> UuidFromStr(text).val])
              /\ Prefixed("s") =>
                     out = Ok([owner |-> "Site", uuid |-> UuidFromStr(rest).val])
              /\ Prefixed("a") =>
                     out = Ok([owner |-> "Addon", uuid |-> UuidFromStr(rest).val])
              /\ ~Valid(text) /\ text # <<>> /\ text[1] \notin {Ch("s"), Ch("a")} =>
                     out = Err("Unknown")
        /\ Done("UuidType::serde") => out = Ok(call.self)

\* an addon identity decoded from its prefixed form
C15_Witness ==
    /\ Done("UuidType::deserialize")
    /\ call.arg = <<Ch("a"), Ch(":")>> \o Uuid1Text
    /\ out = Ok(UuidType_Addon(UuidFromStr(Uuid1Text).val))

\* C16: a text that is not a bare UUID decodes with success only when it is
\* s or a, then a colon, then a valid UUID.
C16_ColonSeparates ==
    Done("UuidType::deserialize") /\ ~IsOk(UuidFromStr(call.arg)) /\ IsOk(out) =>
        /\ Len(call.arg) >= 2
        /\ call.arg[1] \in {Ch("s"), Ch("a")}
        /\ call.arg[2] = Ch(":")
        /\ IsOk(UuidFromStr(SubSeq(call.arg, 3, Len(call.arg))))

\* C17: decoding a UuidType from any string ends in a UuidType or in a decode
\* error, never in a panic.
C17_DecodeTotal == Done("UuidType::deserialize") => out.kind \in {"Ok", "Err"}

\* C18: every try_as_* accessor of SimpleValue and of SchematicFieldValue
\* succeeds exactly on the variant it is named after and returns that
\* variant's payload unchanged; every ensure_* of SimpleValue returns the value
\* it was given when the variant is the named one and an error otherwise.
C18_AccessorsExact ==
    LET Named ==
            [ try_as_text |-> "Text", try_as_number |-> "Number",
              try_as_boolean |-> "Boolean", try_as_date_time |-> "DateTime",
              try_as_date |-> "Date", try_as_time |-> "Time",
              try_as_list_string |-> "ListString", try_as_list_number |-> "ListNumber",
              ensure_text |-> "Text", ensure_number |-> "Number",
              ensure_boolean |-> "Boolean", ensure_date_time |-> "DateTime",
              ensure_date |-> "Date", ensure_time |-> "Time",
              ensure_list_string |-> "ListString", ensure_list_number |-> "ListNumber",
              try_as_reference |-> "Reference", try_as_url |-> "Url",
              try_as_email |-> "Email", try_as_phone |-> "Phone",
              try_as_address |-> "Address", try_as_list_reference |-> "MultiReference",
              try_as_array |-> "Array", try_as_object |-> "Object" ]
        Payload(v) == v[CHOOSE f \in DOMAIN v \ {"t"} : TRUE]
        IsEnsure ==
            call.name \in { "ensure_text", "ensure_number", "ensure_boolean",
                            "ensure_date_time", "ensure_date", "ensure_time",
                            "ensure_list_string", "ensure_list_number" }
    IN  /\ Done("SimpleValue::method") /\ call.name # "any_as_text" =>
              IF call.self.t = Named[call.name]
              THEN out = Ok(IF IsEnsure THEN call.self ELSE Payload(call.self))
              ELSE IsErr(out)
        /\ Done("SchematicFieldValue::try_as") =>
              IF call.self.type = Named[call.name]
              THEN out = Ok(call.self.value)
              ELSE IsErr(out)

\* try_as_list_reference handed out the two identities of a MultiReference
C18_Witness ==
    /\ Done("SchematicFieldValue::try_as")
    /\ call.name = "try_as_list_reference"
    /\ call.self.type = "MultiReference"
    /\ Len(call.self.value) = 2
    /\ out = Ok(call.self.value)

\* C19: any_as_text succeeds exactly on Text, Number, Boolean, DateTime, Date
\* and Time and fails exactly on ListString, ListNumber, ArrayUnknown and
\* ObjectUnknown; Text(s) gives s unchanged; Number(n) gives the decimal
\* rendering of n: an optional minus sign, the digits of the integer part
\* without a leading zero and, for a Float that is not integral, a point and
\* the fraction digits, which read back as n.
C19_AnyAsText ==
    LET self == call.self
        text == out.val
        neg == text # <<>> /\ text[1] = Ch("-")
        body == IF neg THEN Tail(text) ELSE text
        dots == {i \in DOMAIN body : body[i] = Ch(".")}
        dot == IF dots = {} THEN Len(body) + 1 ELSE CHOOSE i \in dots : TRUE
        ip == SubSeq(body, 1, dot - 1)
        fp == SubSeq(body, dot + 1, Len(body))
        value == (IF neg THEN 0 - 1 ELSE 1) * DigitsValue(ip \o fp)
        Decimal ==
            /\ Cardinality(dots) <= 1
            /\ ip # <<>>
            /\ \A i \in DOMAIN ip : IsDigit(ip[i])
            /\ \A i \in DOMAIN fp : IsDigit(fp[i])
            /\ Len(ip) > 1 => ip[1] # Ch("0")
            /\ dots # {} => fp # <<>> /\ fp[Len(fp)] # Ch("0")
    IN  Done("SimpleValue::method") /\ call.name = "any_as_text" =>
            /\ IsOk(out) <=>
                   self.t \in {"Text", "Number", "Boolean", "DateTime", "Date", "Time"}
            /\ IsErr(out) <=>
                   self.t \in {"ListString", "ListNumber", "ArrayUnknown", "ObjectUnknown"}
            /\ self.t = "Text" => out = Ok(self.text)
            /\ self.t = "Number" =>
                   /\ Decimal
                   /\ IF self.num.tag = "Float"
                      THEN self.num.f = [mant |-> value, scale |-> Len(fp)]
                      ELSE dots = {} /\ self.num.v = value

\* a negative Float rendered with its fraction
C19_Witness ==
    /\ Done("SimpleValue::method")
    /\ call.name = "any_as_text"
    /\ call.self.t = "Number"
    /\ call.self.num = Float(F64(0 - 5, 1))
    /\ out = Ok(S(<<"-", "0", ".", "5">>))

\* C20: convert_i64 and convert_f64 give a result for every Number;
\* convert_i64(Byte(b)) and convert_f64(Byte(b)) are b; convert_i64(Integer(n))
\* is n; From<Number> for i64 gives what convert_i64 gives; From<Number> for
\* i32 of Integer(n) gives, without an error, the i32 congruent to n modulo 2^32.
C20_Conversions ==
    LET n == call.self
        payload == IF "w" \in DOMAIN n THEN n.w ELSE I64FromInt(n.v)
    IN  Done("Number::convert") =>
            /\ IsOk(out)
            /\ call.name = "convert_i64" /\ n.tag = "Byte" => out.val = <<0, 0, n.v>>
            /\ call.name = "convert_f64" /\ n.tag = "Byte" =>
                   out.val = [mant |-> n.v, scale |-> 0]
            /\ call.name = "convert_i64" /\ n.tag = "Integer" => out.val = payload
            /\ call.name = "From<Number> for i64" => out.val = convert_i64(n)
            /\ call.name = "From<Number> for i32" /\ n.tag = "Integer" =>
                   /\ out.val \in (0 - 2147483647 - 1)..2147483647
                   /\ (out.val \div 65536) % 65536 = payload[2]
                   /\ out.val % 65536 = payload[3]

\* 2^32 + 5 narrowed to 5
C20_Witness ==
    /\ Done("Number::convert")
    /\ call.name = "From<Number> for i32"
    /\ call.self = IntegerWide(1, 0, 5)
    /\ out = Ok(5)

\* C21: every SchematicFieldType has the code of its position in the declared
\* order, from Text = 0 to Object = 22, no two types share a code, the code
\* converted back is the type, and an integer that is no type's code is
\* refused with an error.
C21_StableCodes ==
    LET Code ==
            [ Text |-> 0, Number |-> 1, URL |-> 2, Email |-> 3, Address |-> 4, Phone |-> 5,
              Boolean |-> 6, DateTime |-> 7, Date |-> 8, Time |-> 9, RichContent |-> 10,
              RichText |-> 11, Reference |-> 12, MultiReference |-> 13, MediaGallery |-> 14,
              Document |-> 15, MultiDocument |-> 16, Image |-> 17, Video |-> 18,
              Audio |-> 19, Tags |-> 20, Array |-> 21, Object |-> 22 ]
    IN  /\ Done("SchematicFieldType::into") =>
              /\ out.val.code = Code[call.self]
              /\ out.val.back = Ok(call.self)
              /\ \A t \in SchematicFieldType :
                     t # call.self => SchematicFieldType_into_i32(t) # out.val.code
        /\ Done("SchematicFieldType::try_from") =>
              IF \E t \in DOMAIN Code : Code[t] = call.arg
              THEN IsOk(out) /\ Code[out.val] = call.arg
              ELSE IsErr(out)

\* Array has the code 21, which converts back to Array
C21_Witness ==
    /\ Done("SchematicFieldType::into")
    /\ call.self = "Array"
    /\ out.val.code = 21
    /\ out.val.back = Ok("Array")

\* C22: the untagged decoders take the first variant in declared order that
\* accepts the value: a JSON string becomes Text whatever it spells, a JSON
\* boolean Boolean, a JSON array of strings, the empty one too, ListString; an
\* integer in 0..255 becomes Byte, any other integer Integer, and a number
\* that is not an integer Float.
C22_FirstFit ==
    LET j == call.arg
        number ==
            IF j.j = "int"
            THEN [tag |-> IF j.i \in 0..255 THEN "Byte" ELSE "Integer", v |-> j.i]
            ELSE [tag |-> "Float", f |-> j.f]
    IN  /\ Done("SimpleValue::deserialize") =>
              /\ j.j = "str" => out.val = [t |-> "Text", text |-> j.s]
              /\ j.j = "bool" => out.val = [t |-> "Boolean", bool |-> j.b]
              /\ j.j = "arr" /\ (\A i \in DOMAIN j.a : j.a[i].j = "str") =>
                     out.val = [t |-> "ListString", strs |-> [i \in DOMAIN j.a |-> j.a[i].s]]
              /\ j.j \in {"int", "float"} => out.val = [t |-> "Number", num |-> number]
        /\ Done("Number::deserialize") => out.val = number

\* the text of a date stays Text
C22_Witness ==
    /\ Done("SimpleValue::deserialize")
    /\ call.arg = JStr(S(<<"2", "0", "2", "4", "-", "0", "1", "-", "1", "5">>))
    /\ out = Ok(SimpleValue_Text(S(<<"2", "0", "2", "4", "-", "0", "1", "-", "1", "5">>)))

\* C23: into_u8 succeeds exactly on Byte(b), with b, and fails on every
\* Integer and Float, those between 0 and 255 too; try_as_bytes succeeds
\* exactly on a ListNumber whose elements are all Bytes, with the bytes in
\* order, and fails as a whole when an element is an Integer or a Float.
C23_BytesOnly ==
    LET self == call.self
    IN  /\ Done("Number::into_u8") =>
              IF self.tag = "Byte" THEN out = Ok(self.v) ELSE IsErr(out)
        /\ Done("SimpleValue::try_as_bytes") =>
              IF self.t = "ListNumber" /\ \A i \in DOMAIN self.nums : self.nums[i].tag = "Byte"
              THEN /\ IsOk(out)
                   /\ Len(out.val) = Len(self.nums)
                   /\ \A i \in DOMAIN self.nums : out.val[i] = self.nums[i].v
              ELSE IsErr(out)

\* a list of two bytes and an Integer within 0..255 is refused as a whole
C23_Witness ==
    /\ Done("SimpleValue::try_as_bytes")
    /\ call.self = SimpleValue_ListNumber(<<Byte(0), Byte(255), Integer(7)>>)
    /\ IsErr(out)

\* C24: for Document, Image, Video, Audio and Tags and every byte sequence b,
\* parse_value of what parse_value_bytes made of b is a ListNumber with one
\* Byte for each byte of b in order, and try_as_bytes of it is b.
C24_BytePathFeeds ==
    Done("byte path") =>
        /\ IsOk(out)
        /\ out.val.parsed =
               Ok([ type |-> "ListNumber",
                    value |-> [i \in DOMAIN call.arg |-> [tag |-> "Byte", v |-> call.arg[i]]] ])
        /\ out.val.bytes = Ok(call.arg)

\* C25: is_upload_file_type is true of exactly the field types of which
\* parse_value_bytes makes a ListNumber out of every byte sequence, and every
\* field type it is true of has a max_bytes_length.
C25_UploadAgrees ==
    LET ListNumberOf(r) == r.kind = "Ok" /\ r.val.t = "ListNumber"
        BinaryByBytes(t) == \A b \in ByteStrings : ListNumberOf(parse_value_bytes(t, b))
    IN  Done("upload metadata") =>
            /\ out.val.upload <=> BinaryByBytes(call.self)
            /\ out.val.upload => out.val.max.some

\* C26: a text decoded as a CollectionName and encoded again is the text; a
\* CollectionName encoded and decoded again is the name exactly when its
\* namespace holds no colon and, without a namespace, its id holds no colon;
\* the id "a:b" without a namespace comes back as the id "b" in the namespace "a".
C26_InverseOneWay ==
    LET colon == 58
        HasColon(s) == \E i \in DOMAIN s : s[i] = colon
        c == call.self
        Safe == IF c.ns.some THEN ~HasColon(c.ns.v) ELSE ~HasColon(c.id)
    IN  /\ Done("CollectionName::decode then encode") =>
              out = Ok([j |-> "str", s |-> call.arg])
        /\ Done("CollectionName::encode then decode") =>
              /\ IsOk(out)
              /\ out.val = c <=> Safe
              /\ c = [id |-> <<97, colon, 98>>, ns |-> [some |-> FALSE]] =>
                     out.val = [id |-> <<98>>, ns |-> [some |-> TRUE, v |-> <<97>>]]

\* the id "a:b" without a namespace came back split
C26_Witness ==
    /\ Done("CollectionName::encode then decode")
    /\ call.self = [id |-> S(<<"a", ":", "b">>), ns |-> None]
    /\ out = Ok([id |-> S(<<"b">>), ns |-> Some(S(<<"a">>))])

====
